---- MODULE Spec2Model ----
(***************************************************************************)
(* coreimage-raw-convert: the TypeScript entry points convertRaw and       *)
(* convertRawAsync (src/src/index.ts, third revision, lines 365-730) and   *)
(* the native addon behind them (src/unnamed/part_013): ConvertRaw,        *)
(* ConvertRawAsync and ConvertRawAsyncWorker.                              *)
(*                                                                         *)
(* Strings are sequences of one-character strings, so that trimming,       *)
(* lower-casing, C-string truncation and path extensions are computed.     *)
(* A JavaScript value is a record [t |-> type tag, v |-> payload].         *)
(* A number (a JavaScript number, a C++ double, an NSNumber) is held in     *)
(* tenths, so that 0.9 is 9, 1.0 is 10 and the "unset" value -1.0 is -10.   *)
(***************************************************************************)
EXTENDS Integers, Sequences, FiniteSets, TLC

\* ------------------------------------------------------------------ bounds
MaxReq == 2          \* asynchronous requests a behaviour of Spec submits
PoolSize == 1        \* threads of the libuv worker pool
MaxBufLen == 1       \* longest input Buffer of the argument universe
MaxSync == 1         \* convertRaw calls a behaviour makes
MaxTicks == 2        \* timer callbacks a behaviour of SpecTick runs
MaxFiles == 3        \* RAW files in the folder of a batch conversion
MaxConcurrent == 2   \* largest maxConcurrent of a batch conversion

\* ------------------------------------------------------- JavaScript values
Undefined == [t |-> "undefined", v |-> <<>>]
Null == [t |-> "null", v |-> <<>>]
Str(s) == [t |-> "string", v |-> s]
Num(n) == [t |-> "number", v |-> n]
Bool(b) == [t |-> "boolean", v |-> b]
Obj(f) == [t |-> "object", v |-> f]
Buf(bytes) == [t |-> "Buffer", v |-> bytes]
EmptyObject == Obj(<<>>)

\* typeof x
TypeOf(x) ==
  CASE x.t = "undefined" -> "undefined"
    [] x.t = "string" -> "string"
    [] x.t = "number" -> "number"
    [] x.t = "boolean" -> "boolean"
    [] OTHER -> "object"

\* Buffer.isBuffer(x)
IsBuffer(x) == x.t = "Buffer"

\* ToBoolean(x): what `!x` and `x || y` test
Truthy(x) ==
  CASE x.t \in {"undefined", "null"} -> FALSE
    [] x.t = "string" -> x.v # <<>>
    [] x.t = "number" -> x.v # 0
    [] x.t = "boolean" -> x.v
    [] OTHER -> TRUE

\* own property test of a plain object (Nan::Has)
HasProp(x, key) == x.t = "object" /\ key \in DOMAIN x.v

\* x?.key
GetProp(x, key) == IF HasProp(x, key) THEN x.v[key] ELSE Undefined

\* --------------------------------------------------------------- strings
Upper == << "A","B","C","D","E","F","G","H","I","J","K","L","M",
            "N","O","P","Q","R","S","T","U","V","W","X","Y","Z" >>
Lower == << "a","b","c","d","e","f","g","h","i","j","k","l","m",
            "n","o","p","q","r","s","t","u","v","w","x","y","z" >>
WhiteSpace == {" ", "\t", "\n"}

ToLowerChar(c) ==
  IF \E i \in 1..26 : Upper[i] = c
    THEN Lower[CHOOSE i \in 1..26 : Upper[i] = c]
    ELSE c

\* String.prototype.toLowerCase
ToLowerCase(s) == [i \in 1..Len(s) |-> ToLowerChar(s[i])]

RECURSIVE TrimStart(_)
TrimStart(s) ==
  IF s # <<>> /\ Head(s) \in WhiteSpace THEN TrimStart(Tail(s)) ELSE s

RECURSIVE TrimEnd(_)
TrimEnd(s) ==
  IF s # <<>> /\ s[Len(s)] \in WhiteSpace
    THEN TrimEnd(SubSeq(s, 1, Len(s) - 1))
    ELSE s

\* String.prototype.trim
Trim(s) == TrimEnd(TrimStart(s))

\* std::string(*Nan::Utf8String(v)): the characters before the first NUL
RECURSIVE CString(_)
CString(s) ==
  IF s = <<>> \/ Head(s) = "NUL" THEN <<>> ELSE <<Head(s)>> \o CString(Tail(s))

\* position of the last occurrence of c in s, 0 when there is none
RECURSIVE LastIndexOf(_, _)
LastIndexOf(s, c) ==
  IF s = <<>> THEN 0
  ELSE IF s[Len(s)] = c THEN Len(s)
  ELSE LastIndexOf(SubSeq(s, 1, Len(s) - 1), c)

RECURSIVE StripTrailingSlashes(_)
StripTrailingSlashes(s) ==
  IF Len(s) > 1 /\ s[Len(s)] = "/"
    THEN StripTrailingSlashes(SubSeq(s, 1, Len(s) - 1))
    ELSE s

\* -[NSString lastPathComponent]
LastPathComponent(p) ==
  LET q == StripTrailingSlashes(p)
      k == LastIndexOf(q, "/")
  IN IF q = <<"/">> THEN q ELSE SubSeq(q, k + 1, Len(q))

\* -[NSString pathExtension]: what follows the final period of the last
\* path component; a period that starts the component begins no extension
PathExtension(p) ==
  LET c == LastPathComponent(p)
      k == LastIndexOf(c, ".")
  IN IF k <= 1 THEN <<>> ELSE SubSeq(c, k + 1, Len(c))

\* ------------------------------------------------------ output formats
\* Object.values(OutputFormat)
supportedFormats ==
  { <<"j","p","e","g">>, <<"j","p","g">>, <<"p","n","g">>,
    <<"t","i","f","f">>, <<"t","i","f">>,
    <<"j","p","e","g","2","0","0","0">>, <<"j","p","2">>,
    <<"h","e","i","f">>, <<"h","e","i","c">>, <<"r","g","b">> }

RgbFormat == <<"r","g","b">>

\* the addon's format -> UTI table; "" stands for its final else branch
outputUTI(format) ==
  CASE format \in {<<"j","p","e","g">>, <<"j","p","g">>} -> "public.jpeg"
    [] format = <<"p","n","g">> -> "public.png"
    [] format \in {<<"t","i","f","f">>, <<"t","i","f">>} -> "public.tiff"
    [] format \in {<<"j","p","e","g","2","0","0","0">>, <<"j","p","2">>}
         -> "public.jpeg-2000"
    [] format \in {<<"h","e","i","f">>, <<"h","e","i","c">>} -> "public.heic"
    [] OTHER -> ""

\* ---------------------------------------------------------------- errors
NoError == [name |-> "", message |-> "", detail |-> <<>>]
Err(name, message) == [name |-> name, message |-> message, detail |-> <<>>]
\* `Unsupported output format: ${outputFormat}. Supported formats: ...`
UnsupportedFormatError(fmt) ==
  [name |-> "Error", message |-> "Unsupported output format", detail |-> fmt]

\* ------------------------------------------ index.ts: argument checks
\* what an entry point does with its arguments: throw (or reject with) an
\* error, or call the addon with (input, normalizedFormat, mergedOptions)
Thrown(e) ==
  [tag |-> "throw", error |-> e, input |-> Undefined, format |-> Undefined,
   options |-> Undefined]
CallAddon(input, format, options) ==
  [tag |-> "addon", error |-> NoError, input |-> input, format |-> format,
   options |-> options]

\* mutant: convertRaw compares the format without lower-casing it
convertRaw_caseSensitive(input, outputFormat, options) ==
  IF ~IsBuffer(input) /\ TypeOf(input) # "string"
    THEN Thrown(Err("TypeError", "Input must be a Buffer or file path string"))
  ELSE IF IsBuffer(input) /\ Len(input.v) = 0
    THEN Thrown(Err("Error", "Input buffer is empty"))
  ELSE IF TypeOf(input) = "string" /\ Trim(input.v) = <<>>
    THEN Thrown(Err("Error", "File path cannot be empty"))
  ELSE IF TypeOf(outputFormat) # "string" \/ Trim(outputFormat.v) = <<>>
    THEN Thrown(Err("TypeError", "Output format must be a non-empty string"))
  ELSE
    LET normalizedFormat == Trim(outputFormat.v)
        mergedOptions == IF Truthy(options) THEN options ELSE EmptyObject
    IN IF normalizedFormat \notin supportedFormats
         THEN Thrown(UnsupportedFormatError(outputFormat.v))
       ELSE IF IsBuffer(input) /\ ~Truthy(GetProp(options, "inputFormat"))
         THEN Thrown(Err("Error",
                         "inputFormat is required when input is a Buffer"))
       ELSE IF mergedOptions # Null /\ TypeOf(mergedOptions) # "object"
         THEN Thrown(Err("TypeError", "Options must be an object"))
       ELSE CallAddon(input, Str(normalizedFormat), mergedOptions)

\* mutant: convertRaw asks for the inputFormat hint before it looks at the
\* length of the Buffer
convertRaw_hintFirst(input, outputFormat, options) ==
  IF ~IsBuffer(input) /\ TypeOf(input) # "string"
    THEN Thrown(Err("TypeError", "Input must be a Buffer or file path string"))
  ELSE IF IsBuffer(input) /\ ~Truthy(GetProp(options, "inputFormat"))
    THEN Thrown(Err("Error", "inputFormat is required when input is a Buffer"))
  ELSE IF IsBuffer(input) /\ Len(input.v) = 0
    THEN Thrown(Err("Error", "Input buffer is empty"))
  ELSE IF TypeOf(input) = "string" /\ Trim(input.v) = <<>>
    THEN Thrown(Err("Error", "File path cannot be empty"))
  ELSE IF TypeOf(outputFormat) # "string" \/ Trim(outputFormat.v) = <<>>
    THEN Thrown(Err("TypeError", "Output format must be a non-empty string"))
  ELSE
    LET normalizedFormat == Trim(ToLowerCase(outputFormat.v))
        mergedOptions == IF Truthy(options) THEN options ELSE EmptyObject
    IN IF normalizedFormat \notin supportedFormats
         THEN Thrown(UnsupportedFormatError(outputFormat.v))
       ELSE IF mergedOptions # Null /\ TypeOf(mergedOptions) # "object"
         THEN Thrown(Err("TypeError", "Options must be an object"))
       ELSE CallAddon(input, Str(normalizedFormat), mergedOptions)

\* convertRaw, index.ts:606-647
convertRaw(input, outputFormat, options) ==
  IF ~IsBuffer(input) /\ TypeOf(input) # "string"
    THEN Thrown(Err("TypeError", "Input must be a Buffer or file path string"))
  ELSE IF IsBuffer(input) /\ Len(input.v) = 0
    THEN Thrown(Err("Error", "Input buffer is empty"))
  ELSE IF TypeOf(input) = "string" /\ Trim(input.v) = <<>>
    THEN Thrown(Err("Error", "File path cannot be empty"))
  ELSE IF TypeOf(outputFormat) # "string" \/ Trim(outputFormat.v) = <<>>
    THEN Thrown(Err("TypeError", "Output format must be a non-empty string"))
  ELSE
    LET normalizedFormat == Trim(ToLowerCase(outputFormat.v))
        mergedOptions == IF Truthy(options) THEN options ELSE EmptyObject
    IN IF normalizedFormat \notin supportedFormats
         THEN Thrown(UnsupportedFormatError(outputFormat.v))
       ELSE IF IsBuffer(input) /\ ~Truthy(GetProp(options, "inputFormat"))
         THEN Thrown(Err("Error",
                         "inputFormat is required when input is a Buffer"))
       ELSE IF mergedOptions # Null /\ TypeOf(mergedOptions) # "object"
         THEN Thrown(Err("TypeError", "Options must be an object"))
       ELSE CallAddon(input, Str(normalizedFormat), mergedOptions)

\* mutant: convertRawAsync checks the options before the inputFormat hint
convertRawAsync_optionsFirst(input, outputFormat, options) ==
  IF ~IsBuffer(input) /\ TypeOf(input) # "string"
    THEN Thrown(Err("TypeError", "Input must be a Buffer or file path string"))
  ELSE IF IsBuffer(input) /\ Len(input.v) = 0
    THEN Thrown(Err("Error", "Input buffer is empty"))
  ELSE IF TypeOf(input) = "string" /\ Trim(input.v) = <<>>
    THEN Thrown(Err("Error", "File path cannot be empty"))
  ELSE IF TypeOf(outputFormat) # "string" \/ Trim(outputFormat.v) = <<>>
    THEN Thrown(Err("TypeError", "Output format must be a non-empty string"))
  ELSE
    LET normalizedFormat == Trim(ToLowerCase(outputFormat.v))
        mergedOptions == IF Truthy(options) THEN options ELSE EmptyObject
    IN IF normalizedFormat \notin supportedFormats
         THEN Thrown(UnsupportedFormatError(outputFormat.v))
       ELSE IF mergedOptions # Null /\ TypeOf(mergedOptions) # "object"
         THEN Thrown(Err("TypeError", "Options must be an object"))
       ELSE IF IsBuffer(input) /\ ~Truthy(GetProp(options, "inputFormat"))
         THEN Thrown(Err("Error",
                         "inputFormat is required when input is a Buffer"))
       ELSE CallAddon(input, Str(normalizedFormat), mergedOptions)

\* convertRawAsync, index.ts:664-713 (the promise executor up to the call
\* of the addon; Thrown stands for reject(error); return)
convertRawAsync(input, outputFormat, options) ==
  IF ~IsBuffer(input) /\ TypeOf(input) # "string"
    THEN Thrown(Err("TypeError", "Input must be a Buffer or file path string"))
  ELSE IF IsBuffer(input) /\ Len(input.v) = 0
    THEN Thrown(Err("Error", "Input buffer is empty"))
  ELSE IF TypeOf(input) = "string" /\ Trim(input.v) = <<>>
    THEN Thrown(Err("Error", "File path cannot be empty"))
  ELSE IF TypeOf(outputFormat) # "string" \/ Trim(outputFormat.v) = <<>>
    THEN Thrown(Err("TypeError", "Output format must be a non-empty string"))
  ELSE
    LET normalizedFormat == Trim(ToLowerCase(outputFormat.v))
        mergedOptions == IF Truthy(options) THEN options ELSE EmptyObject
    IN IF normalizedFormat \notin supportedFormats
         THEN Thrown(UnsupportedFormatError(outputFormat.v))
       ELSE IF IsBuffer(input) /\ ~Truthy(GetProp(options, "inputFormat"))
         THEN Thrown(Err("Error",
                         "inputFormat is required when input is a Buffer"))
       ELSE IF mergedOptions # Null /\ TypeOf(mergedOptions) # "object"
         THEN Thrown(Err("TypeError", "Options must be an object"))
       ELSE CallAddon(input, Str(normalizedFormat), mergedOptions)

\* mutant: the callback resolves where it should reject
completionCallback_swapped(error, result) ==
  IF Truthy(error) THEN [settle |-> "resolve", value |-> error.v]
  ELSE IF Truthy(result) THEN [settle |-> "reject", value |-> result.v]
  ELSE [settle |-> "reject",
        value |-> Err("Error", "Unknown error occurred during conversion")]

\* mutant: the callback forgets the success branch
completionCallback_dropsResult(error, result) ==
  IF Truthy(error) THEN [settle |-> "reject", value |-> error.v]
  ELSE [settle |-> "none", value |-> NoError]

\* the completion callback convertRawAsync hands to the addon,
\* index.ts:718-727: which settle function it calls, and with what
completionCallback(error, result) ==
  IF Truthy(error) THEN [settle |-> "reject", value |-> error.v]
  ELSE IF Truthy(result) THEN [settle |-> "resolve", value |-> result.v]
  ELSE [settle |-> "reject",
        value |-> Err("Error", "Unknown error occurred during conversion")]

\* ------------------------------------------- addon: option normalizer
\* InternalConversionOptions with its defaults, part_013:11-35 (ConvertRaw
\* keeps the same values in local variables, part_013:894-920; the model
\* names them as the struct does).  -10, that is -1.0, is the "unset" value.
DefaultOptions ==
  [lensCorrection |-> TRUE, exposure |-> 0, boost |-> 10,
   boostShadowAmount |-> 0, baselineExposure |-> 0,
   neutralTemperature |-> -10, neutralTint |-> -10,
   disableGamutMap |-> FALSE, allowDraftMode |-> FALSE,
   ignoreImageOrientation |-> FALSE,
   colorNoiseReductionAmount |-> -10, luminanceNoiseReductionAmount |-> -10,
   contrastAmount |-> -10, sharpnessAmount |-> -10,
   noiseReductionAmount |-> -10, localToneMapAmount |-> -10,
   scaleFactor |-> 10, quality |-> -10,
   embedThumbnail |-> FALSE, optimizeColorForSharing |-> FALSE,
   preserveExifData |-> TRUE, extractMetadata |-> FALSE, inputFormat |-> <<>>]

\* v8::Value::IsObject
IsObject(x) == x.t \in {"object", "Buffer"}

\* mutant: a wrongly typed boolean option is coerced with ToBoolean
getBoolOption_coerces(options, key, target) ==
  IF HasProp(options, key) THEN Truthy(options.v[key]) ELSE target

getBoolOption(options, key, target) ==
  IF HasProp(options, key) /\ options.v[key].t = "boolean"
    THEN options.v[key].v ELSE target

getNumberOption(options, key, target) ==
  IF HasProp(options, key) /\ options.v[key].t = "number"
    THEN options.v[key].v ELSE target

getStringOption(options, key, target) ==
  IF HasProp(options, key) /\ options.v[key].t = "string"
    THEN CString(options.v[key].v) ELSE target

\* ConvertRaw, part_013:893-987
ParseOptionsSync(options) ==
  IF IsObject(options)
    THEN [lensCorrection |-> getBoolOption(options, "lensCorrection", TRUE),
          exposure |-> getNumberOption(options, "exposure", 0),
          boost |-> getNumberOption(options, "boost", 10),
          boostShadowAmount |->
            getNumberOption(options, "boostShadowAmount", 0),
          baselineExposure |-> getNumberOption(options, "baselineExposure", 0),
          neutralTemperature |->
            getNumberOption(options, "neutralTemperature", -10),
          neutralTint |-> getNumberOption(options, "neutralTint", -10),
          disableGamutMap |-> getBoolOption(options, "disableGamutMap", FALSE),
          allowDraftMode |-> getBoolOption(options, "allowDraftMode", FALSE),
          ignoreImageOrientation |->
            getBoolOption(options, "ignoreImageOrientation", FALSE),
          colorNoiseReductionAmount |->
            getNumberOption(options, "colorNoiseReductionAmount", -10),
          luminanceNoiseReductionAmount |->
            getNumberOption(options, "luminanceNoiseReductionAmount", -10),
          contrastAmount |-> getNumberOption(options, "contrastAmount", -10),
          sharpnessAmount |-> getNumberOption(options, "sharpnessAmount", -10),
          noiseReductionAmount |->
            getNumberOption(options, "noiseReductionAmount", -10),
          localToneMapAmount |->
            getNumberOption(options, "localToneMapAmount", -10),
          scaleFactor |-> getNumberOption(options, "scaleFactor", 10),
          quality |-> getNumberOption(options, "quality", -10),
          embedThumbnail |-> getBoolOption(options, "embedThumbnail", FALSE),
          optimizeColorForSharing |->
            getBoolOption(options, "optimizeColorForSharing", FALSE),
          preserveExifData |->
            getBoolOption(options, "preserveExifData", TRUE),
          extractMetadata |->
            getBoolOption(options, "extractMetadata", FALSE),
          inputFormat |-> getStringOption(options, "inputFormat", <<>>)]
    ELSE [lensCorrection |-> TRUE, exposure |-> 0, boost |-> 10,
          boostShadowAmount |-> 0, baselineExposure |-> 0,
          neutralTemperature |-> -10, neutralTint |-> -10,
          disableGamutMap |-> FALSE, allowDraftMode |-> FALSE,
          ignoreImageOrientation |-> FALSE,
          colorNoiseReductionAmount |-> -10,
          luminanceNoiseReductionAmount |-> -10,
          contrastAmount |-> -10, sharpnessAmount |-> -10,
          noiseReductionAmount |-> -10, localToneMapAmount |-> -10,
          scaleFactor |-> 10, quality |-> -10,
          embedThumbnail |-> FALSE, optimizeColorForSharing |-> FALSE,
          preserveExifData |-> TRUE, extractMetadata |-> FALSE,
          inputFormat |-> <<>>]

\* ConvertRawAsync, part_013:1386-1453
ParseOptionsAsync(options) ==
  LET d == DefaultOptions
  IN IF IsObject(options)
       THEN [lensCorrection |->
               getBoolOption(options, "lensCorrection", d.lensCorrection),
             exposure |-> getNumberOption(options, "exposure", d.exposure),
             boost |-> getNumberOption(options, "boost", d.boost),
             boostShadowAmount |->
               getNumberOption(options, "boostShadowAmount",
                               d.boostShadowAmount),
             baselineExposure |->
               getNumberOption(options, "baselineExposure",
                               d.baselineExposure),
             neutralTemperature |->
               getNumberOption(options, "neutralTemperature",
                               d.neutralTemperature),
             neutralTint |->
               getNumberOption(options, "neutralTint", d.neutralTint),
             disableGamutMap |->
               getBoolOption(options, "disableGamutMap", d.disableGamutMap),
             allowDraftMode |->
               getBoolOption(options, "allowDraftMode", d.allowDraftMode),
             ignoreImageOrientation |->
               getBoolOption(options, "ignoreImageOrientation",
                             d.ignoreImageOrientation),
             colorNoiseReductionAmount |->
               getNumberOption(options, "colorNoiseReductionAmount",
                               d.colorNoiseReductionAmount),
             luminanceNoiseReductionAmount |->
               getNumberOption(options, "luminanceNoiseReductionAmount",
                               d.luminanceNoiseReductionAmount),
             contrastAmount |->
               getNumberOption(options, "contrastAmount", d.contrastAmount),
             sharpnessAmount |->
               getNumberOption(options, "sharpnessAmount", d.sharpnessAmount),
             noiseReductionAmount |->
               getNumberOption(options, "noiseReductionAmount",
                               d.noiseReductionAmount),
             localToneMapAmount |->
               getNumberOption(options, "localToneMapAmount",
                               d.localToneMapAmount),
             scaleFactor |->
               getNumberOption(options, "scaleFactor", d.scaleFactor),
             quality |-> getNumberOption(options, "quality", d.quality),
             embedThumbnail |->
               getBoolOption(options, "embedThumbnail", d.embedThumbnail),
             optimizeColorForSharing |->
               getBoolOption(options, "optimizeColorForSharing",
                             d.optimizeColorForSharing),
             preserveExifData |->
               getBoolOption(options, "preserveExifData",
                             d.preserveExifData),
             extractMetadata |->
               getBoolOption(options, "extractMetadata", d.extractMetadata),
             inputFormat |->
               getStringOption(options, "inputFormat", d.inputFormat)]
       ELSE d

\* ------------------------------------------------ addon: staging file
\* extension of the staging file, ConvertRaw, part_013:1030-1047
\* (<<>> is "no extension appended")
SyncTempExtension(inputFormat, inputIsString, path) ==
  LET fileExtension ==
        IF inputFormat # <<>> THEN inputFormat
        ELSE IF inputIsString /\ Len(PathExtension(path)) > 0
          THEN PathExtension(path)
        ELSE <<>>
  IN IF Len(fileExtension) > 0 THEN fileExtension ELSE <<>>

\* mutant: the worker prefers the extension of the path to the hint
AsyncTempExtension_pathFirst(inputFormat, isFilePath, filePath) ==
  IF isFilePath /\ Len(PathExtension(filePath)) > 0
    THEN PathExtension(filePath)
    ELSE inputFormat

\* ConvertRawAsyncWorker::Execute, part_013:387-403
AsyncTempExtension(inputFormat, isFilePath, filePath) ==
  LET fileExtension ==
        IF inputFormat # <<>> THEN inputFormat
        ELSE IF isFilePath /\ Len(PathExtension(filePath)) > 0
          THEN PathExtension(filePath)
        ELSE <<>>
  IN IF Len(fileExtension) > 0 THEN fileExtension ELSE <<>>

\* ---------------------------------------- addon: render and encode
\* The file system, the Render Engine and the Container Encoder are the
\* environment: it picks the stage that fails, "none" for no failure.
LoadFailures(isFilePath) ==
  IF isFilePath THEN {"none", "read", "write"} ELSE {"none", "write"}

RenderFailures(format) ==
  {"none", "filter", "noimage", "extent", "render"}
    \cup (IF format = RgbFormat THEN {"rgb"}
          ELSE IF outputUTI(format) # "" THEN {"dest", "finalize"} ELSE {})

NativeUnsupported(format) ==
  [name |-> "Error", message |-> "Unsupported output format (addon)",
   detail |-> format]

\* ConvertRaw after the staging file was written, part_013:1143-1323:
\* the error thrown, NoError when an OutputImage is returned
SyncRender(format, fail) ==
  IF fail = "filter"
    THEN Err("Error", "Failed to create CIRAWFilter from image data")
  ELSE IF fail = "noimage"
    THEN Err("Error", "Failed to get output image from RAW filter")
  ELSE IF fail = "extent" THEN Err("Error", "Output image has empty extent")
  ELSE IF fail = "render"
    THEN Err("Error", "Failed to create CGImage from CIImage")
  ELSE IF format = RgbFormat
    THEN (IF fail = "rgb"
            THEN Err("Error", "Failed to extract RGB data from image")
            ELSE NoError)
  ELSE IF outputUTI(format) = "" THEN NativeUnsupported(format)
  ELSE IF fail = "dest" THEN Err("Error", "Failed to create image destination")
  ELSE IF fail = "finalize"
    THEN Err("Error", "Failed to finalize image destination")
  ELSE NoError

\* mutant: Execute reports an empty extent as a failure to create the filter
AsyncRender_extentAsFilter(format, fail) ==
  IF fail \in {"filter", "extent"}
    THEN Err("Error", "Failed to create CIRAWFilter from image data")
  ELSE IF fail = "noimage"
    THEN Err("Error", "Failed to get output image from RAW filter")
  ELSE IF fail = "render"
    THEN Err("Error", "Failed to create CGImage from CIImage")
  ELSE IF format = RgbFormat
    THEN (IF fail = "rgb"
            THEN Err("Error", "Failed to extract RGB data from image")
            ELSE NoError)
  ELSE IF outputUTI(format) = "" THEN NativeUnsupported(format)
  ELSE IF fail = "dest" THEN Err("Error", "Failed to create image destination")
  ELSE IF fail = "finalize"
    THEN Err("Error", "Failed to finalize image destination")
  ELSE NoError

\* ConvertRawAsyncWorker::Execute after the staging file was written,
\* part_013:499-780: the message given to SetErrorMessage, NoError when
\* outputData_ is filled
AsyncRender(format, fail) ==
  IF fail = "filter"
    THEN Err("Error", "Failed to create CIRAWFilter from image data")
  ELSE IF fail = "noimage"
    THEN Err("Error", "Failed to get output image from RAW filter")
  ELSE IF fail = "extent" THEN Err("Error", "Output image has empty extent")
  ELSE IF fail = "render"
    THEN Err("Error", "Failed to create CGImage from CIImage")
  ELSE IF format = RgbFormat
    THEN (IF fail = "rgb"
            THEN Err("Error", "Failed to extract RGB data from image")
            ELSE NoError)
  ELSE IF outputUTI(format) = "" THEN NativeUnsupported(format)
  ELSE IF fail = "dest" THEN Err("Error", "Failed to create image destination")
  ELSE IF fail = "finalize"
    THEN Err("Error", "Failed to finalize image destination")
  ELSE NoError

\* ------------------------------------- addon: Render Engine parameters
\* An NSDictionary is Dict(f) with f a function from its keys to its values,
\* and nil is Nil.  Keys carry the names of the framework's constants.
Nil == [t |-> "nil", v |-> <<>>]
Dict(f) == [t |-> "dict", v |-> f]
Array(q) == [t |-> "array", v |-> q]

\* the rawOptions ConvertRaw hands to filterWithImageURL:options:,
\* part_013:1073-1141 (on a system where the @available tests succeed)
SyncRawOptions(o) ==
  LET keys ==
        { "kCIInputEnableVendorLensCorrectionKey", "kCIInputBoostKey",
          "kCIInputEVKey", "kCIInputEnableEDRModeKey" }
        \cup (IF o.baselineExposure # 0
                THEN {"kCIInputBaselineExposureKey"} ELSE {})
        \cup (IF o.boostShadowAmount # 0
                THEN {"kCIInputBoostShadowAmountKey"} ELSE {})
        \cup (IF o.neutralTemperature >= 0
                THEN {"kCIInputNeutralTemperatureKey"} ELSE {})
        \cup (IF o.neutralTint >= 0 THEN {"kCIInputNeutralTintKey"} ELSE {})
        \cup (IF o.disableGamutMap THEN {"kCIInputDisableGamutMapKey"} ELSE {})
        \cup (IF o.allowDraftMode THEN {"kCIInputAllowDraftModeKey"} ELSE {})
        \cup (IF o.ignoreImageOrientation
                THEN {"kCIInputIgnoreImageOrientationKey"} ELSE {})
        \cup (IF o.colorNoiseReductionAmount >= 0
                THEN {"kCIInputColorNoiseReductionAmountKey"} ELSE {})
        \cup (IF o.luminanceNoiseReductionAmount >= 0
                THEN {"kCIInputLuminanceNoiseReductionAmountKey"} ELSE {})
        \cup (IF o.contrastAmount >= 0 THEN {"kCIInputContrastKey"} ELSE {})
        \cup (IF o.sharpnessAmount >= 0 THEN {"kCIInputSharpnessKey"} ELSE {})
        \cup (IF o.noiseReductionAmount >= 0
                THEN {"kCIInputNoiseReductionAmountKey"} ELSE {})
        \cup (IF o.localToneMapAmount >= 0
                THEN {"kCIInputLocalToneMapAmountKey"} ELSE {})
        \cup (IF o.scaleFactor # 10 THEN {"kCIInputScaleFactorKey"} ELSE {})
  IN Dict([k \in keys |->
       CASE k = "kCIInputEnableVendorLensCorrectionKey"
              -> Bool(o.lensCorrection)
         [] k = "kCIInputBoostKey" -> Num(o.boost)
         [] k = "kCIInputEVKey" -> Num(o.exposure)
         [] k = "kCIInputEnableEDRModeKey" -> Bool(FALSE)
         [] k = "kCIInputBaselineExposureKey" -> Num(o.baselineExposure)
         [] k = "kCIInputBoostShadowAmountKey" -> Num(o.boostShadowAmount)
         [] k = "kCIInputNeutralTemperatureKey" -> Num(o.neutralTemperature)
         [] k = "kCIInputNeutralTintKey" -> Num(o.neutralTint)
         [] k = "kCIInputColorNoiseReductionAmountKey"
              -> Num(o.colorNoiseReductionAmount)
         [] k = "kCIInputLuminanceNoiseReductionAmountKey"
              -> Num(o.luminanceNoiseReductionAmount)
         [] k = "kCIInputContrastKey" -> Num(o.contrastAmount)
         [] k = "kCIInputSharpnessKey" -> Num(o.sharpnessAmount)
         [] k = "kCIInputNoiseReductionAmountKey"
              -> Num(o.noiseReductionAmount)
         [] k = "kCIInputLocalToneMapAmountKey" -> Num(o.localToneMapAmount)
         [] k = "kCIInputScaleFactorKey" -> Num(o.scaleFactor)
         [] OTHER -> Bool(TRUE)])

\* mutant: the worker forwards the contrast amount whatever its value
AsyncRawOptions_forwardsContrast(o) ==
  Dict(("kCIInputContrastKey" :> Num(o.contrastAmount)) @@ SyncRawOptions(o).v)

\* the rawOptions ConvertRawAsyncWorker::Execute hands to
\* filterWithImageURL:options:, part_013:429-497
AsyncRawOptions(o) ==
  LET keys ==
        { "kCIInputEnableVendorLensCorrectionKey", "kCIInputBoostKey",
          "kCIInputEVKey", "kCIInputEnableEDRModeKey" }
        \cup (IF o.baselineExposure # 0
                THEN {"kCIInputBaselineExposureKey"} ELSE {})
        \cup (IF o.boostShadowAmount # 0
                THEN {"kCIInputBoostShadowAmountKey"} ELSE {})
        \cup (IF o.neutralTemperature >= 0
                THEN {"kCIInputNeutralTemperatureKey"} ELSE {})
        \cup (IF o.neutralTint >= 0 THEN {"kCIInputNeutralTintKey"} ELSE {})
        \cup (IF o.disableGamutMap THEN {"kCIInputDisableGamutMapKey"} ELSE {})
        \cup (IF o.allowDraftMode THEN {"kCIInputAllowDraftModeKey"} ELSE {})
        \cup (IF o.ignoreImageOrientation
                THEN {"kCIInputIgnoreImageOrientationKey"} ELSE {})
        \cup (IF o.colorNoiseReductionAmount >= 0
                THEN {"kCIInputColorNoiseReductionAmountKey"} ELSE {})
        \cup (IF o.luminanceNoiseReductionAmount >= 0
                THEN {"kCIInputLuminanceNoiseReductionAmountKey"} ELSE {})
        \cup (IF o.contrastAmount >= 0 THEN {"kCIInputContrastKey"} ELSE {})
        \cup (IF o.sharpnessAmount >= 0 THEN {"kCIInputSharpnessKey"} ELSE {})
        \cup (IF o.noiseReductionAmount >= 0
                THEN {"kCIInputNoiseReductionAmountKey"} ELSE {})
        \cup (IF o.localToneMapAmount >= 0
                THEN {"kCIInputLocalToneMapAmountKey"} ELSE {})
        \cup (IF o.scaleFactor # 10 THEN {"kCIInputScaleFactorKey"} ELSE {})
  IN Dict([k \in keys |->
       CASE k = "kCIInputEnableVendorLensCorrectionKey"
              -> Bool(o.lensCorrection)
         [] k = "kCIInputBoostKey" -> Num(o.boost)
         [] k = "kCIInputEVKey" -> Num(o.exposure)
         [] k = "kCIInputEnableEDRModeKey" -> Bool(FALSE)
         [] k = "kCIInputBaselineExposureKey" -> Num(o.baselineExposure)
         [] k = "kCIInputBoostShadowAmountKey" -> Num(o.boostShadowAmount)
         [] k = "kCIInputNeutralTemperatureKey" -> Num(o.neutralTemperature)
         [] k = "kCIInputNeutralTintKey" -> Num(o.neutralTint)
         [] k = "kCIInputColorNoiseReductionAmountKey"
              -> Num(o.colorNoiseReductionAmount)
         [] k = "kCIInputLuminanceNoiseReductionAmountKey"
              -> Num(o.luminanceNoiseReductionAmount)
         [] k = "kCIInputContrastKey" -> Num(o.contrastAmount)
         [] k = "kCIInputSharpnessKey" -> Num(o.sharpnessAmount)
         [] k = "kCIInputNoiseReductionAmountKey"
              -> Num(o.noiseReductionAmount)
         [] k = "kCIInputLocalToneMapAmountKey" -> Num(o.localToneMapAmount)
         [] k = "kCIInputScaleFactorKey" -> Num(o.scaleFactor)
         [] OTHER -> Bool(TRUE)])

\* ---------------------------------------- addon: Container Encoder input
\* the format-specific properties of ConvertRaw, part_013:1259-1278
SyncProperties(format, o) ==
  LET lossy == format \in { <<"j","p","e","g">>, <<"j","p","g">>,
                            <<"h","e","i","f">>, <<"h","e","i","c">>,
                            <<"j","p","e","g","2","0","0","0">>,
                            <<"j","p","2">> }
      thumb == format \in { <<"j","p","e","g">>, <<"j","p","g">>,
                            <<"h","e","i","f">>, <<"h","e","i","c">> }
                 /\ o.embedThumbnail
      keys == (IF lossy THEN {"kCGImageDestinationLossyCompressionQuality"}
               ELSE {})
              \cup (IF thumb THEN {"kCGImageDestinationEmbedThumbnail"} ELSE {})
              \cup (IF o.optimizeColorForSharing
                      THEN {"kCGImageDestinationOptimizeColorForSharing"}
                      ELSE {})
  IN [k \in keys |->
       IF k = "kCGImageDestinationLossyCompressionQuality"
         THEN Num(IF o.quality >= 0 THEN o.quality ELSE 9)
         ELSE Bool(TRUE)]

\* mutant: the worker sets a compression quality for every format
AsyncProperties_qualityAlways(format, o) ==
  ("kCGImageDestinationLossyCompressionQuality" :>
     Num(IF o.quality >= 0 THEN o.quality ELSE 9))
    @@ SyncProperties(format, o)

\* the format-specific properties of Execute, part_013:726-743
AsyncProperties(format, o) ==
  LET lossy == format \in { <<"j","p","e","g">>, <<"j","p","g">>,
                            <<"h","e","i","f">>, <<"h","e","i","c">>,
                            <<"j","p","e","g","2","0","0","0">>,
                            <<"j","p","2">> }
      thumb == format \in { <<"j","p","e","g">>, <<"j","p","g">>,
                            <<"h","e","i","f">>, <<"h","e","i","c">> }
                 /\ o.embedThumbnail
      keys == (IF lossy THEN {"kCGImageDestinationLossyCompressionQuality"}
               ELSE {})
              \cup (IF thumb THEN {"kCGImageDestinationEmbedThumbnail"} ELSE {})
              \cup (IF o.optimizeColorForSharing
                      THEN {"kCGImageDestinationOptimizeColorForSharing"}
                      ELSE {})
  IN [k \in keys |->
       IF k = "kCGImageDestinationLossyCompressionQuality"
         THEN Num(IF o.quality >= 0 THEN o.quality ELSE 9)
         ELSE Bool(TRUE)]

\* the properties ConvertRaw gives CGImageDestinationAddImage,
\* part_013:1280-1293
SyncEncoderProperties(format, o, sourceMetadata) ==
  LET properties == SyncProperties(format, o)
  IN IF o.preserveExifData /\ sourceMetadata # Nil
       THEN Dict(("kCGImageDestinationMergeMetadata" :> Bool(TRUE))
                   @@ properties @@ sourceMetadata.v)
       ELSE Dict(properties)

\* mutant: on a shared key the worker lets the source metadata win
AsyncEncoderProperties_sourceWins(format, o, sourceMetadata) ==
  LET properties == AsyncProperties(format, o)
  IN IF o.preserveExifData /\ sourceMetadata # Nil
       THEN Dict(("kCGImageDestinationMergeMetadata" :> Bool(TRUE))
                   @@ sourceMetadata.v @@ properties)
       ELSE Dict(properties)

\* the properties Execute gives CGImageDestinationAddImage, part_013:745-758
AsyncEncoderProperties(format, o, sourceMetadata) ==
  LET properties == AsyncProperties(format, o)
  IN IF o.preserveExifData /\ sourceMetadata # Nil
       THEN Dict(("kCGImageDestinationMergeMetadata" :> Bool(TRUE))
                   @@ properties @@ sourceMetadata.v)
       ELSE Dict(properties)

\* CGImageSourceCopyPropertiesAtIndex on the staging file, read only when
\* preserveExifData is set: part_013:1061-1071 and 417-427
SyncReadSourceMetadata(o, src) == IF o.preserveExifData THEN src ELSE Nil

\* mutant: the worker reads the source metadata only without preserveExifData
AsyncReadSourceMetadata_inverted(o, src) ==
  IF o.preserveExifData THEN Nil ELSE src

AsyncReadSourceMetadata(o, src) == IF o.preserveExifData THEN src ELSE Nil

\* ------------------------------------------- addon: owned references
\* The way ConvertRaw or Execute leaves after the staging file was written:
\* the failing stage, or the branch that returned ("read" and "write" are
\* the two exits before it).
ExitPath(format, fail) ==
  IF fail \in {"filter", "noimage", "extent", "render"} THEN fail
  ELSE IF format = RgbFormat
    THEN (IF fail = "rgb" THEN "rgbfail" ELSE "rgb")
  ELSE IF outputUTI(format) = "" THEN "unsupported"
  ELSE IF fail \in {"dest", "finalize"} THEN fail
  ELSE "ok"

\* the CGImageRelease(cgImage) calls on an exit path of ConvertRaw,
\* part_013:1176-1323
SyncCGImageRelease(exit) ==
  IF exit \in {"rgb", "rgbfail", "dest", "finalize", "ok"} THEN 1 ELSE 0

\* mutant: Execute does not release the image when finalize fails
AsyncCGImageRelease_finalizeLeaks(exit) ==
  IF exit \in {"rgb", "rgbfail", "unsupported", "dest", "ok"} THEN 1 ELSE 0

\* the CGImageRelease(cgImage) calls on an exit path of Execute,
\* part_013:532-780
AsyncCGImageRelease(exit) ==
  IF exit \in {"rgb", "rgbfail", "unsupported", "dest", "finalize", "ok"}
    THEN 1 ELSE 0

\* the CFRelease(sourceMetadataRef) calls on an exit path of ConvertRaw,
\* each under `if (sourceMetadataRef)`: part_013:1208-1219 and 1316-1318
SyncSourceRelease(exit, sourceMetadataRef) ==
  IF sourceMetadataRef # Nil /\ exit \in {"rgb", "rgbfail", "ok"}
    THEN 1 ELSE 0

\* the same calls of Execute: part_013:674-685 and 776-778
AsyncSourceRelease(exit, sourceMetadataRef) ==
  IF sourceMetadataRef # Nil /\ exit \in {"rgb", "rgbfail", "ok"}
    THEN 1 ELSE 0

\* the references a call owns: whether each was made, how often released
Refs0 ==
  [cgImage |-> [made |-> FALSE, released |-> 0],
   sourceMetadataRef |-> [made |-> FALSE, released |-> 0]]

\* ------------------------------------------- addon: raw RGB output
\* A CGImage is its width, its height, the order of the four bytes of a
\* pixel in its backing store, the padding bytes that end each row, and its
\* pixels row by row, each a record of colour components and alpha.
PixelBytes(p, order) ==
  CASE order = "RGBA" -> <<p.r, p.g, p.b, p.a>>
    [] order = "BGRA" -> <<p.b, p.g, p.r, p.a>>
    [] OTHER -> <<p.a, p.r, p.g, p.b>>

RECURSIVE Flatten(_)
Flatten(seqs) ==
  IF seqs = <<>> THEN <<>> ELSE Head(seqs) \o Flatten(Tail(seqs))

\* CGDataProviderCopyData(CGImageGetDataProvider(cgImage)): the backing store
CGDataProviderCopyData(image) ==
  Flatten([y \in 1..image.height |->
             Flatten([x \in 1..image.width |->
                        PixelBytes(image.pixels[(y - 1) * image.width + x],
                                   image.order)])
               \o [i \in 1..image.pad |-> 0]])

\* CGContextDrawImage into a context of width * 4 bytes per row,
\* kCGImageAlphaNoneSkipLast | kCGBitmapByteOrder32Big: red, green, blue and
\* an unused byte for every pixel
CGContextDrawImage(image) ==
  Flatten([k \in 1..(image.width * image.height) |->
             <<image.pixels[k].r, image.pixels[k].g, image.pixels[k].b, 0>>])

\* mutant: the conversion loop keeps the fourth byte of every pixel
RgbaToRgb_keepsFourth(bytes, rgbSize) == bytes

\* the loop `for (i = 0, j = 0; i < length; i += 4, j += 3)`, part_013:207-212
\* and 263-267: rgbSize bytes, the first three of every four
RgbaToRgb(bytes, rgbSize) ==
  [j \in 1..rgbSize |-> bytes[4 * ((j - 1) \div 3) + ((j - 1) % 3) + 1]]

\* the paths of ExtractRgbData open for an image: direct access needs a
\* data provider, a copy of its data, a data length of width * height * 4
\* and a successful malloc; the bitmap context is the fallback
RgbPaths(image) ==
  {"fallback"}
    \cup (IF Len(CGDataProviderCopyData(image))
               = image.width * image.height * 4
            THEN {"direct"} ELSE {})

\* ExtractRgbData when it returns true, part_013:186-279: *outputData
ExtractRgbData(image, path) ==
  LET rgbSize == image.width * image.height * 3
  IN IF path = "direct"
       THEN RgbaToRgb(CGDataProviderCopyData(image), rgbSize)
       ELSE RgbaToRgb(CGContextDrawImage(image), rgbSize)

\* ------------------------------------------- addon: image metadata
\* the rendered CGImage is the variable cgImage: CGImageGetWidth and
\* CGImageGetHeight are its fields width and height

\* -[NSNumber intValue]: the fraction is dropped
IntValue(x) == IF x >= 0 THEN (x \div 10) * 10 ELSE -(((-x) \div 10) * 10)

\* the fields read from the EXIF, TIFF and GPS dictionaries, in source
\* order: the ImageMetadata field, the dictionary and key it is read from,
\* how it is converted (doubleValue, intValue, UTF8String, first element of
\* the ISO array) and the "empty" value of its MetadataStorage member
MetadataFields ==
  { [name |-> "focalLength35mm", dict |-> "Exif",
     key |-> "FocalLenIn35mmFilm", kind |-> "double", unset |-> -10],
    [name |-> "shutterSpeed", dict |-> "Exif",
     key |-> "ExposureTime", kind |-> "double", unset |-> -10],
    [name |-> "fNumber", dict |-> "Exif",
     key |-> "FNumber", kind |-> "double", unset |-> -10],
    [name |-> "iso", dict |-> "Exif",
     key |-> "ISOSpeedRatings", kind |-> "first", unset |-> -10],
    [name |-> "dateTimeOriginal", dict |-> "Exif",
     key |-> "DateTimeOriginal", kind |-> "string", unset |-> <<>>],
    [name |-> "lensMake", dict |-> "Exif",
     key |-> "LensMake", kind |-> "string", unset |-> <<>>],
    [name |-> "lensModel", dict |-> "Exif",
     key |-> "LensModel", kind |-> "string", unset |-> <<>>],
    [name |-> "focalLength", dict |-> "Exif",
     key |-> "FocalLength", kind |-> "double", unset |-> -10],
    [name |-> "whiteBalance", dict |-> "Exif",
     key |-> "WhiteBalance", kind |-> "int", unset |-> -10],
    [name |-> "exposureMode", dict |-> "Exif",
     key |-> "ExposureMode", kind |-> "int", unset |-> -10],
    [name |-> "exposureBias", dict |-> "Exif",
     key |-> "ExposureBiasValue", kind |-> "double", unset |-> -9990],
    [name |-> "cameraMake", dict |-> "TIFF",
     key |-> "Make", kind |-> "string", unset |-> <<>>],
    [name |-> "cameraModel", dict |-> "TIFF",
     key |-> "Model", kind |-> "string", unset |-> <<>>],
    [name |-> "software", dict |-> "TIFF",
     key |-> "Software", kind |-> "string", unset |-> <<>>],
    [name |-> "orientation", dict |-> "TIFF",
     key |-> "Orientation", kind |-> "int", unset |-> -10],
    [name |-> "altitude", dict |-> "GPS",
     key |-> "Altitude", kind |-> "double", unset |-> -9990] }

\* sourceMetadata[dict], nil when sourceMetadata is nil or has no such entry
SubDictionary(sourceMetadata, dict) ==
  IF sourceMetadata.t = "dict" /\ dict \in DOMAIN sourceMetadata.v
    THEN sourceMetadata.v[dict] ELSE Nil

\* dictionary[key], nil when there is none
ObjectForKey(dictionary, key) ==
  IF dictionary.t = "dict" /\ key \in DOMAIN dictionary.v
    THEN dictionary.v[key] ELSE Nil

\* the `if (value)` (for ISO `if (array && count > 0)`) guarding a field
FieldFound(sourceMetadata, f) ==
  LET value == ObjectForKey(SubDictionary(sourceMetadata, f.dict), f.key)
  IN value # Nil /\ (f.kind = "first" => Len(value.v) > 0)

\* the converted value of a found field, as a plain double, int or C string
FieldValue(sourceMetadata, f) ==
  LET value == ObjectForKey(SubDictionary(sourceMetadata, f.dict), f.key)
  IN CASE f.kind = "double" -> value.v
       [] f.kind = "int" -> IntValue(value.v)
       [] f.kind = "first" -> value.v[1].v
       [] OTHER -> CString(value.v)

\* latitude / longitude with the hemisphere sign, part_013:150-173, 638-659:
\* found when magnitude and reference are both there
SignedFound(sourceMetadata, key, refKey) ==
  LET gpsDict == SubDictionary(sourceMetadata, "GPS")
  IN ObjectForKey(gpsDict, key) # Nil /\ ObjectForKey(gpsDict, refKey) # Nil

\* mutant: the coordinate is negated for every reference but the positive one
SignedValue_negatesOthers(sourceMetadata, key, refKey, negative) ==
  LET gpsDict == SubDictionary(sourceMetadata, "GPS")
      magnitude == ObjectForKey(gpsDict, key).v
  IN IF ObjectForKey(gpsDict, refKey).v \in {<<"N">>, <<"E">>}
       THEN magnitude ELSE -magnitude

SignedValue(sourceMetadata, key, refKey, negative) ==
  LET gpsDict == SubDictionary(sourceMetadata, "GPS")
      magnitude == ObjectForKey(gpsDict, key).v
  IN IF ObjectForKey(gpsDict, refKey).v = negative
       THEN -magnitude ELSE magnitude

\* a JavaScript value for a plain one
Boxed(f, x) == IF f.kind = "string" THEN Str(x) ELSE Num(x)

\* ExtractImageMetadata(sourceMetadataRef, cgImage), part_013:38-184: the
\* metadata object of convertRaw, a function from field names to values
ExtractImageMetadata(sourceMetadataRef, image) ==
  LET found == {f \in MetadataFields : FieldFound(sourceMetadataRef, f)}
      lat == SignedFound(sourceMetadataRef, "Latitude", "LatitudeRef")
      lon == SignedFound(sourceMetadataRef, "Longitude", "LongitudeRef")
      names == {"width", "height"} \cup {f.name : f \in found}
                 \cup (IF lat THEN {"latitude"} ELSE {})
                 \cup (IF lon THEN {"longitude"} ELSE {})
  IN [n \in names |->
       CASE n = "width" -> Num(image.width)
         [] n = "height" -> Num(image.height)
         [] n = "latitude" ->
              Num(SignedValue(sourceMetadataRef, "Latitude", "LatitudeRef",
                              <<"S">>))
         [] n = "longitude" ->
              Num(SignedValue(sourceMetadataRef, "Longitude", "LongitudeRef",
                              <<"W">>))
         [] OTHER ->
              LET f == CHOOSE g \in found : g.name = n
              IN Boxed(f, FieldValue(sourceMetadataRef, f))]

\* ConvertRawAsyncWorker::MetadataStorage as constructed, part_013:335-357
MetadataStorage0 ==
  [n \in {"width", "height", "latitude", "longitude", "hasMetadata"}
           \cup {f.name : f \in MetadataFields} |->
     CASE n \in {"width", "height"} -> 0
       [] n \in {"latitude", "longitude"} -> -9990
       [] n = "hasMetadata" -> FALSE
       [] OTHER -> (CHOOSE g \in MetadataFields : g.name = n).unset]

\* mutant: the worker fills the storage without marking it as filled
FillMetadataStorage_noFlag(sourceMetadataRef, image) ==
  [MetadataStorage0 EXCEPT !["width"] = image.width,
                           !["height"] = image.height]

\* Execute filling metadataStorage_, part_013:541-667
FillMetadataStorage(sourceMetadataRef, image) ==
  [n \in DOMAIN MetadataStorage0 |->
     CASE n = "hasMetadata" -> TRUE
       [] n = "width" -> image.width
       [] n = "height" -> image.height
       [] n = "latitude" ->
            IF SignedFound(sourceMetadataRef, "Latitude", "LatitudeRef")
              THEN SignedValue(sourceMetadataRef, "Latitude", "LatitudeRef",
                               <<"S">>)
              ELSE MetadataStorage0[n]
       [] n = "longitude" ->
            IF SignedFound(sourceMetadataRef, "Longitude", "LongitudeRef")
              THEN SignedValue(sourceMetadataRef, "Longitude", "LongitudeRef",
                               <<"W">>)
              ELSE MetadataStorage0[n]
       [] OTHER ->
            LET f == CHOOSE g \in MetadataFields : g.name = n
            IN IF FieldFound(sourceMetadataRef, f)
                 THEN FieldValue(sourceMetadataRef, f)
                 ELSE MetadataStorage0[n]]

\* the test HandleOKCallback makes before it sets a field, part_013:794-851
StorageHolds(storage, n) ==
  CASE n \in {"width", "height"} -> storage[n] > 0
    [] n \in {"latitude", "longitude", "altitude", "exposureBias"}
         -> storage[n] > -9990
    [] n \in {f.name : f \in {g \in MetadataFields : g.kind = "string"}}
         -> storage[n] # <<>>
    [] OTHER -> storage[n] >= 0

\* the metadata object HandleOKCallback builds, part_013:791-853
StorageMetadata(storage) ==
  LET names == {n \in DOMAIN storage \ {"hasMetadata"} : StorageHolds(storage, n)}
  IN [n \in names |->
       IF n \in {f.name : f \in {g \in MetadataFields : g.kind = "string"}}
         THEN Str(storage[n]) ELSE Num(storage[n])]

\* ------------------------------------------- addon: argument handling
NativeThrow(e) ==
  [tag |-> "throw", error |-> e, isFilePath |-> FALSE, filePath |-> <<>>,
   bufferLength |-> 0, format |-> <<>>, options |-> DefaultOptions]

\* ConvertRawAsync up to the construction of the worker, part_013:1338-1453;
\* every "throw" outcome is preceded by `delete callback`
ConvertRawAsyncArgs(input, format, options) ==
  IF input.t = "string" /\ CString(input.v) = <<>>
    THEN NativeThrow(Err("Error", "File path cannot be empty"))
  ELSE IF input.t = "Buffer" /\ Len(input.v) = 0
    THEN NativeThrow(Err("Error", "Input buffer is empty"))
  ELSE IF input.t \notin {"string", "Buffer"}
    THEN NativeThrow(Err("TypeError",
                         "First argument must be a Buffer or file path string"))
  ELSE IF format.t # "string"
    THEN NativeThrow(Err("TypeError",
           "Second argument must be a string specifying the output format"))
  ELSE [tag |-> "queue", error |-> NoError,
        isFilePath |-> input.t = "string",
        filePath |-> IF input.t = "string" THEN CString(input.v) ELSE <<>>,
        bufferLength |-> IF input.t = "Buffer" THEN Len(input.v) ELSE 0,
        format |-> CString(format.v),
        options |-> ParseOptionsAsync(options)]

\* ConvertRaw up to the loading of the image data, part_013:878-1025
ConvertRawArgs(input, format, options) ==
  IF format.t # "string"
    THEN NativeThrow(Err("TypeError",
           "Second argument must be a string specifying the output format"))
  ELSE IF input.t = "string" /\ CString(input.v) = <<>>
    THEN NativeThrow(Err("Error", "File path cannot be empty"))
  ELSE IF input.t = "Buffer" /\ Len(input.v) = 0
    THEN NativeThrow(Err("Error", "Input buffer is empty"))
  ELSE IF input.t \notin {"string", "Buffer"}
    THEN NativeThrow(Err("TypeError",
                         "First argument must be a Buffer or file path string"))
  ELSE [tag |-> "load", error |-> NoError,
        isFilePath |-> input.t = "string",
        filePath |-> IF input.t = "string" THEN CString(input.v) ELSE <<>>,
        bufferLength |-> IF input.t = "Buffer" THEN Len(input.v) ELSE 0,
        format |-> CString(format.v),
        options |-> ParseOptionsSync(options)]

\* mutant: the worker keeps the caller's pointer instead of copying
WorkerBufferData_alias(bufferData, bufferLength) ==
  IF bufferData # "null" /\ bufferLength > 0 THEN bufferData ELSE "null"

\* ConvertRawAsyncWorker's constructor, part_013:294-305: where bufferData_
\* points after construction ("copy" is the worker's own new char[])
WorkerBufferData(bufferData, bufferLength) ==
  IF bufferData # "null" /\ bufferLength > 0 THEN "copy" ELSE "null"

\* [NSData dataWithContentsOfFile:]: the bytes of the file at a path
FileContents(path) == <<"file:">> \o path

\* what the Container Encoder makes of the image data
Encoded(imageData, format) == [src |-> imageData, format |-> format]

\* the output of a conversion: the bytes of ExtractRgbData for rgb, else
\* the encoded container
Output(imageData, format, image, path) ==
  IF format = RgbFormat
    THEN [src |-> imageData, format |-> format,
          bytes |-> ExtractRgbData(image, path)]
    ELSE Encoded(imageData, format)

\* ------------------------------------------------------------------ state
VARIABLES
  probe,      \* the arguments a behaviour of SpecArgs calls the entry points with
  source,     \* what CGImageSourceCopyPropertiesAtIndex yields for the input
  cgImage,    \* what createCGImage:fromRect: yields for the input
  ticks,      \* how often a timer of the caller's thread has fired
  batch,      \* the batch conversion of a folder (examples/batch-convert.ts)
  state,      \* request -> Idle, Rejected, Queued, Executing, Succeeded, Failed
  submitted,  \* request -> the arguments the caller passed, and through what
  handed,     \* owner -> the arguments the addon was called with
  promise,    \* request -> the promise convertRawAsync returned
  calls,      \* request -> how often resolve, reject, the addon, the worker's
              \*            success and error callbacks were called
  mem,        \* request -> the caller's Buffer, the worker's input copy and
              \*            its output buffer: allocation state, bytes, frees
  cbk,        \* request -> the Nan::Callback wrapper
  w,          \* request -> the fields of its ConvertRawAsyncWorker
  queue,      \* the work queue of the worker pool
  busy,       \* requests whose Execute runs on a pool thread
  files,      \* staging files that exist in the temporary directory
  staged,     \* owner -> staging files it has written (0 is convertRaw)
  sync        \* the convertRaw call on the main thread

vars == << probe, source, cgImage, ticks, batch, state, submitted, handed, promise, calls, mem, cbk, w, queue, busy,
           files, staged, sync >>

Req == 1..MaxReq
Owners == 0..MaxReq

Bytes == {"x", "y"}
RECURSIVE SeqsUpTo(_, _)
SeqsUpTo(S, n) ==
  IF n = 0 THEN {<<>>}
  ELSE LET shorter == SeqsUpTo(S, n - 1)
       IN shorter \cup {Append(q, c) : q \in shorter, c \in S}
BufferContents == SeqsUpTo(Bytes, MaxBufLen)

NoArgs == [input |-> Undefined, format |-> Undefined, options |-> Undefined]
NoCall == [input |-> Undefined, format |-> Undefined, options |-> Undefined,
           via |-> "none"]
Cell0 == [st |-> "unalloc", data |-> <<>>, frees |-> 0]
Live(data) == [st |-> "live", data |-> data, frees |-> 0]
Mem0 == [caller |-> Cell0, copy |-> Cell0, out |-> Cell0]
NoTemp == [uuid |-> <<>>, ext |-> <<>>]
\* mutant: every staging file gets the same name
NewUuid_fixed(owner) == <<0, 1>>

\* [NSUUID UUID]: a name no other staging file has or had
NewUuid(owner) == <<owner, Len(staged[owner]) + 1>>
Worker0 ==
  [pc |-> "none", isFilePath_ |-> FALSE, filePath_ |-> <<>>,
   bufferData_ |-> "null", bufferLength_ |-> 0, format_ |-> <<>>,
   options_ |-> DefaultOptions, outputData_ |-> "null", errmsg |-> NoError,
   imageData |-> <<>>, tempPath |-> NoTemp,
   metadataStorage_ |-> MetadataStorage0,
   sourceMetadata |-> Nil, rawOptions |-> Nil, properties |-> Nil,
   exit |-> "none", refs |-> Refs0]
Promise0 == [status |-> "none", value |-> NoError]
Calls0 == [resolve |-> 0, reject |-> 0, addon |-> 0, ok |-> 0, error |-> 0]
Sync0 ==
  [pc |-> "idle", calls |-> 0, addon |-> 0, isFilePath |-> FALSE,
   filePath |-> <<>>, imageData |-> <<>>, format |-> <<>>,
   options |-> DefaultOptions, tempPath |-> NoTemp,
   result |-> [tag |-> "none", value |-> NoError],
   extracted |-> FALSE,
   sourceMetadata |-> Nil, rawOptions |-> Nil, properties |-> Nil,
   exit |-> "none", refs |-> Refs0]

InitRest ==
  /\ state = [r \in Req |-> "Idle"]
  /\ submitted = [r \in Req |-> NoCall]
  /\ handed = [o \in Owners |-> NoArgs]
  /\ promise = [r \in Req |-> Promise0]
  /\ calls = [r \in Req |-> Calls0]
  /\ mem = [r \in Req |-> Mem0]
  /\ cbk = [r \in Req |-> [st |-> "unalloc", frees |-> 0]]
  /\ w = [r \in Req |-> Worker0]
  /\ queue = <<>>
  /\ busy = {}
  /\ files = {}
  /\ staged = [o \in Owners |-> <<>>]
  /\ sync = Sync0

\* ---------------------------------------------------------------- memory
\* reading through a pointer: a freed block may hold anything
Deref(cell) == IF cell.st = "live" THEN {cell.data} ELSE BufferContents

\* delete[] p
Delete(m, p) ==
  IF p = "null" THEN m
  ELSE [m EXCEPT ![p] = [st |-> "freed", data |-> <<>>, frees |-> @.frees + 1]]

\* mutant: the destructor forgets the input copy
WorkerDestructor_leaksInput(m, bufferData_, outputData_) ==
  Delete(m, outputData_)

\* ~ConvertRawAsyncWorker, part_013:308-311
WorkerDestructor(m, bufferData_, outputData_) ==
  Delete(Delete(m, bufferData_), outputData_)

\* mutant: the worker removes the staging file only once the filter exists
AsyncCleanTemp_afterFilter(fs, temp, filterCreated) ==
  IF filterCreated THEN fs \ {temp} ELSE fs

\* removeItemAtPath:tempPath after filterWithImageURL, part_013:503 and 1147
AsyncCleanTemp(fs, temp, filterCreated) == fs \ {temp}
SyncCleanTemp(fs, temp, filterCreated) == fs \ {temp}

TempFile(owner, temp) == [owner |-> owner, uuid |-> temp.uuid, ext |-> temp.ext]

CallerCell(input) == IF IsBuffer(input) THEN Live(input.v) ELSE Cell0

\* ------------------------------------------------- convertRawAsync
\* request ids are handed out in order
NextRequest(r) ==
  state[r] = "Idle" /\ \A q \in Req : q < r => state[q] # "Idle"

\* mutant: callbacks of the caller's thread run during a convertRaw call
MainThreadFree_always == TRUE

\* JavaScript runs on the main thread, which a convertRaw call occupies
MainThreadFree == sync.pc = "idle"

\* addon.convertRawAsync(input, format, options, callback), part_013:1326-1461.
\* An exception it throws inside the promise executor rejects the promise.
AddonAsync(r, a, input, format, options, via) ==
  LET n == ConvertRawAsyncArgs(input, format, options)
      bufferData == IF input.t = "Buffer" THEN "caller" ELSE "null"
      ptr == WorkerBufferData(bufferData, n.bufferLength)
  IN
  /\ submitted' = [submitted EXCEPT ![r] =
                     [input |-> a.input, format |-> a.format,
                      options |-> a.options, via |-> via]]
  /\ handed' = [handed EXCEPT ![r] =
                  [input |-> input, format |-> format, options |-> options]]
  /\ IF n.tag = "throw"
       THEN /\ cbk' = [cbk EXCEPT ![r] = [st |-> "freed", frees |-> 1]]
            /\ state' = [state EXCEPT ![r] = "Rejected"]
            /\ promise' = [promise EXCEPT ![r] =
                  [status |-> IF via = "wrapper" THEN "rejected" ELSE "threw",
                   value |-> n.error]]
            /\ calls' = [calls EXCEPT ![r].addon = @ + 1,
                           ![r].reject = IF via = "wrapper" THEN @ + 1 ELSE @]
            /\ mem' = [mem EXCEPT ![r].caller = CallerCell(a.input)]
            /\ UNCHANGED << w, queue >>
       ELSE /\ cbk' = [cbk EXCEPT ![r] = [st |-> "live", frees |-> 0]]
            /\ state' = [state EXCEPT ![r] = "Queued"]
            /\ promise' = [promise EXCEPT ![r] =
                  [status |-> IF via = "wrapper" THEN "pending" ELSE "none",
                   value |-> NoError]]
            /\ calls' = [calls EXCEPT ![r].addon = @ + 1]
            /\ mem' = [mem EXCEPT
                  ![r].caller = CallerCell(a.input),
                  ![r].copy = IF ptr = "copy" THEN Live(input.v) ELSE Cell0]
            /\ w' = [w EXCEPT ![r] =
                  [Worker0 EXCEPT !.pc = "queued",
                                  !.isFilePath_ = n.isFilePath,
                                  !.filePath_ = n.filePath,
                                  !.bufferData_ = ptr,
                                  !.bufferLength_ = n.bufferLength,
                                  !.format_ = n.format,
                                  !.options_ = n.options]]
            /\ queue' = Append(queue, r)

\* convertRawAsync(input, outputFormat, options), index.ts:659-729
ConvertRawAsyncCall(r, a) ==
  /\ MainThreadFree
  /\ NextRequest(r)
  /\ LET chk == convertRawAsync(a.input, a.format, a.options)
     IN IF chk.tag = "throw"
          THEN /\ submitted' = [submitted EXCEPT ![r] =
                     [input |-> a.input, format |-> a.format,
                      options |-> a.options, via |-> "wrapper"]]
               /\ state' = [state EXCEPT ![r] = "Rejected"]
               /\ promise' = [promise EXCEPT ![r] =
                     [status |-> "rejected", value |-> chk.error]]
               /\ calls' = [calls EXCEPT ![r].reject = @ + 1]
               /\ mem' = [mem EXCEPT ![r].caller = CallerCell(a.input)]
               /\ UNCHANGED << handed, cbk, w, queue >>
          ELSE AddonAsync(r, a, chk.input, chk.format, chk.options, "wrapper")
  /\ UNCHANGED << probe, source, cgImage, ticks, batch, busy, files, staged, sync >>

\* the addon's convertRawAsync called without the index.ts wrapper
AddonConvertRawAsyncCall(r, a) ==
  /\ MainThreadFree
  /\ NextRequest(r)
  /\ AddonAsync(r, a, a.input, a.format, a.options, "addon")
  /\ UNCHANGED << probe, source, cgImage, ticks, batch, busy, files, staged, sync >>

\* a pool thread takes the request at the head of the work queue
\* (Nan::AsyncQueueWorker -> uv_queue_work)
StartExecuteOn(r, threads) ==
  /\ queue # <<>>
  /\ Head(queue) = r
  /\ Cardinality(busy) < threads
  /\ queue' = Tail(queue)
  /\ busy' = busy \cup {r}
  /\ state' = [state EXCEPT ![r] = "Executing"]
  /\ w' = [w EXCEPT ![r].pc = "load"]
  /\ UNCHANGED << probe, source, cgImage, ticks, batch, handed, submitted, promise, calls, mem, cbk, files, staged, sync >>

StartExecute(r) == StartExecuteOn(r, PoolSize)

\* the bytes Execute loads, part_013:366-382
ReadInput(r) ==
  IF w[r].isFilePath_ THEN {FileContents(w[r].filePath_)}
  ELSE IF w[r].bufferData_ = "null" THEN {<<>>}
  ELSE Deref(mem[r][w[r].bufferData_])

\* ConvertRawAsyncWorker::Execute up to the written staging file,
\* part_013:361-412
ExecuteLoad(r, F) ==
  /\ w[r].pc = "load"
  /\ \E fail \in LoadFailures(w[r].isFilePath_) \cap F, data \in ReadInput(r) :
       LET wr == w[r]
           loadError ==
             IF wr.isFilePath_
               THEN (IF fail = "read"
                       THEN Err("Error", "Failed to read file from path")
                       ELSE NoError)
             ELSE IF wr.bufferData_ = "null" \/ wr.bufferLength_ = 0
               THEN Err("Error", "Invalid buffer data")
             ELSE NoError
           temp == [uuid |-> NewUuid(r),
                    ext |-> AsyncTempExtension(wr.options_.inputFormat,
                                               wr.isFilePath_, wr.filePath_)]
       IN IF loadError # NoError
            THEN /\ w' = [w EXCEPT ![r].pc = "returned",
                                   ![r].errmsg = loadError,
                                   ![r].exit =
                                      IF wr.isFilePath_ THEN "read"
                                      ELSE "none"]
                 /\ busy' = busy \ {r}
                 /\ UNCHANGED << files, staged >>
          ELSE IF fail = "write"
            THEN /\ w' = [w EXCEPT ![r].pc = "returned",
                            ![r].errmsg =
                               Err("Error", "Failed to write temp file"),
                            ![r].exit = "write"]
                 /\ busy' = busy \ {r}
                 /\ UNCHANGED << files, staged >>
          ELSE /\ w' = [w EXCEPT ![r].pc = "staged",
                                 ![r].imageData = data,
                                 ![r].tempPath = temp]
               /\ files' = files \cup {TempFile(r, temp)}
               /\ staged' = [staged EXCEPT ![r] = Append(@, temp)]
               /\ UNCHANGED busy
  /\ UNCHANGED << probe, source, cgImage, ticks, batch, handed, state, submitted, promise, calls, mem, cbk, queue,
                  sync >>

\* ConvertRawAsyncWorker::Execute from the RAW filter to its return,
\* part_013:414-780
ExecuteRender(r, F) ==
  /\ w[r].pc = "staged"
  /\ \E fail \in RenderFailures(w[r].format_) \cap F, path \in RgbPaths(cgImage) :
       LET err == AsyncRender(w[r].format_, fail)
           o == w[r].options_
           sourceMetadata == AsyncReadSourceMetadata(o, source)
           \* the CGImage exists: the metadata block is reached
           rendered == fail \notin {"filter", "noimage", "extent", "render"}
           \* CGImageDestinationAddImage is reached
           added == /\ rendered
                    /\ w[r].format_ # RgbFormat
                    /\ outputUTI(w[r].format_) # ""
                    /\ fail # "dest"
       IN /\ files' = AsyncCleanTemp(files, TempFile(r, w[r].tempPath),
                                     fail # "filter")
          /\ w' = [w EXCEPT ![r].pc = "returned",
                            ![r].errmsg = err,
                            ![r].outputData_ =
                               IF err = NoError THEN "out" ELSE "null",
                            ![r].sourceMetadata = sourceMetadata,
                            ![r].rawOptions = AsyncRawOptions(o),
                            ![r].metadataStorage_ =
                               IF rendered /\ o.extractMetadata
                                 THEN FillMetadataStorage(sourceMetadata,
                                                          cgImage)
                                 ELSE @,
                            ![r].properties =
                               IF added
                                 THEN AsyncEncoderProperties(w[r].format_, o,
                                                             sourceMetadata)
                                 ELSE @,
                            ![r].exit = ExitPath(w[r].format_, fail),
                            ![r].refs =
                               [cgImage |->
                                  [made |-> rendered,
                                   released |->
                                     AsyncCGImageRelease(
                                       ExitPath(w[r].format_, fail))],
                                sourceMetadataRef |->
                                  [made |-> sourceMetadata # Nil,
                                   released |->
                                     AsyncSourceRelease(
                                       ExitPath(w[r].format_, fail),
                                       sourceMetadata)]]]
          /\ mem' = [mem EXCEPT ![r].out =
                       IF err = NoError
                         THEN Live(Output(w[r].imageData, w[r].format_,
                                          cgImage, path))
                         ELSE @]
  /\ busy' = busy \ {r}
  /\ UNCHANGED << probe, source, cgImage, ticks, batch, handed, state, submitted, promise, calls, cbk,
                  queue, staged, sync >>

\* Nan::AsyncWorker completion on the main thread: WorkComplete calls
\* HandleOKCallback (part_013:783-864) when no error message was set,
\* HandleErrorCallback (part_013:866-875) otherwise; then the worker is
\* destroyed.  The callback is index.ts:718-727 for a wrapper request.
WorkComplete(r) ==
  /\ MainThreadFree
  /\ w[r].pc = "returned"
  /\ LET ok == w[r].errmsg = NoError
         buffer == IF w[r].outputData_ = "null" THEN <<>>
                   ELSE mem[r][w[r].outputData_].data
         outputImage ==
           Obj(IF w[r].metadataStorage_.hasMetadata
                 THEN [buffer |-> buffer,
                       metadata |-> StorageMetadata(w[r].metadataStorage_)]
                 ELSE [buffer |-> buffer])
         error == IF ok THEN Null ELSE Obj(w[r].errmsg)
         result == IF ok THEN outputImage ELSE Null
         js == completionCallback(error, result)
         wrapped == submitted[r].via = "wrapper"
     IN /\ calls' = [calls EXCEPT
              ![r].ok = IF ok THEN @ + 1 ELSE @,
              ![r].error = IF ok THEN @ ELSE @ + 1,
              ![r].resolve =
                 IF wrapped /\ js.settle = "resolve" THEN @ + 1 ELSE @,
              ![r].reject =
                 IF wrapped /\ js.settle = "reject" THEN @ + 1 ELSE @]
        /\ promise' = [promise EXCEPT ![r] =
              IF wrapped /\ @.status = "pending"
                   /\ js.settle \in {"resolve", "reject"}
                THEN [status |-> IF js.settle = "resolve" THEN "resolved"
                                 ELSE "rejected",
                      value |-> js.value]
                ELSE @]
        /\ state' = [state EXCEPT ![r] = IF ok THEN "Succeeded" ELSE "Failed"]
  /\ mem' = [mem EXCEPT ![r] =
               WorkerDestructor(@, w[r].bufferData_, w[r].outputData_)]
  /\ cbk' = [cbk EXCEPT ![r] = [st |-> "freed", frees |-> @.frees + 1]]
  /\ w' = [w EXCEPT ![r].pc = "destroyed"]
  /\ UNCHANGED << probe, source, cgImage, ticks, batch, handed, submitted, queue, busy, files, staged,
                  sync >>

\* the caller writes other bytes into the Buffer it passed
CallerOverwrite(r) ==
  /\ MainThreadFree
  /\ state[r] \in {"Queued", "Executing"}
  /\ mem[r].caller.st = "live"
  /\ \E d \in BufferContents :
       /\ Len(d) = Len(mem[r].caller.data)
       /\ d # mem[r].caller.data
       /\ mem' = [mem EXCEPT ![r].caller.data = d]
  /\ UNCHANGED << probe, source, cgImage, ticks, batch, handed, state, submitted, promise, calls, cbk, w, queue, busy,
                  files, staged, sync >>

\* the caller drops the Buffer it passed and it is collected
CallerRelease(r) ==
  /\ MainThreadFree
  /\ state[r] \in {"Queued", "Executing"}
  /\ mem[r].caller.st = "live"
  /\ mem' = [mem EXCEPT ![r].caller = [st |-> "freed", data |-> <<>>,
                                       frees |-> @.frees + 1]]
  /\ UNCHANGED << probe, source, cgImage, ticks, batch, handed, state, submitted, promise, calls, cbk, w, queue, busy,
                  files, staged, sync >>

\* ------------------------------------------------------- convertRaw
Handed(chk) ==
  [input |-> chk.input, format |-> chk.format, options |-> chk.options]

SyncDone(tag, value) ==
  [sync EXCEPT !.pc = "idle", !.calls = @ + 1,
               !.result = [tag |-> tag, value |-> value],
               !.exit = "none", !.refs = Refs0]

\* convertRaw(input, outputFormat, options), index.ts:601-648, and the
\* addon's ConvertRaw up to the written staging file, part_013:877-1056
ConvertRawVia(a, chk) ==
  /\ MainThreadFree
  /\ sync.calls < MaxSync
  /\ LET n == ConvertRawArgs(chk.input, chk.format, chk.options)
         temp == [uuid |-> NewUuid(0),
                  ext |-> SyncTempExtension(n.options.inputFormat,
                                            n.isFilePath, n.filePath)]
     IN /\ handed' = IF chk.tag = "throw" THEN handed
                     ELSE [handed EXCEPT ![0] = Handed(chk)]
        /\ IF chk.tag = "throw"
             THEN /\ sync' = SyncDone("throw", chk.error)
                  /\ UNCHANGED << files, staged >>
           ELSE IF n.tag = "throw"
             THEN /\ sync' = [SyncDone("throw", n.error) EXCEPT !.addon = @ + 1]
                  /\ UNCHANGED << files, staged >>
           ELSE \E fail \in LoadFailures(n.isFilePath) :
                  IF fail = "read"
                    THEN /\ sync' = [SyncDone("throw",
                                       Err("Error",
                                           "Failed to read file from path"))
                                       EXCEPT !.addon = @ + 1,
                                              !.exit = "read"]
                         /\ UNCHANGED << files, staged >>
                  ELSE IF fail = "write"
                    THEN /\ sync' = [SyncDone("throw",
                                       Err("Error",
                                           "Failed to write temp file"))
                                       EXCEPT !.addon = @ + 1,
                                              !.exit = "write"]
                         /\ UNCHANGED << files, staged >>
                  ELSE /\ sync' = [sync EXCEPT
                              !.pc = "staged", !.addon = @ + 1,
                              !.isFilePath = n.isFilePath,
                              !.filePath = n.filePath,
                              !.imageData =
                                 IF n.isFilePath THEN FileContents(n.filePath)
                                 ELSE chk.input.v,
                              !.format = n.format,
                              !.options = n.options,
                              !.tempPath = temp,
                              !.result = [tag |-> "none", value |-> NoError],
                              !.extracted = FALSE,
                              !.sourceMetadata = Nil,
                              !.rawOptions = Nil,
                              !.properties = Nil,
                              !.exit = "none",
                              !.refs = Refs0]
                       /\ files' = files \cup {TempFile(0, temp)}
                       /\ staged' = [staged EXCEPT ![0] = Append(@, temp)]
  /\ UNCHANGED << probe, source, cgImage, ticks, batch, state, submitted, promise, calls, mem, cbk, w, queue,
                  busy >>

\* convertRaw of index.ts called with the arguments a
ConvertRawCall(a) == ConvertRawVia(a, convertRaw(a.input, a.format, a.options))

\* the addon's convertRaw called with the arguments a, no wrapper before it
AddonConvertRawCall(a) ==
  ConvertRawVia(a, CallAddon(a.input, a.format, a.options))

\* ConvertRaw from the RAW filter to its return, part_013:1058-1323
ConvertRawReturn ==
  /\ sync.pc = "staged"
  /\ \E fail \in RenderFailures(sync.format), path \in RgbPaths(cgImage) :
       LET err == SyncRender(sync.format, fail)
           o == sync.options
           sourceMetadata == SyncReadSourceMetadata(o, source)
           \* the CGImage exists: the metadata block is reached
           rendered == fail \notin {"filter", "noimage", "extent", "render"}
           \* CGImageDestinationAddImage is reached
           added == /\ rendered
                    /\ sync.format # RgbFormat
                    /\ outputUTI(sync.format) # ""
                    /\ fail # "dest"
           buffer == Output(sync.imageData, sync.format, cgImage, path)
           done == IF err # NoError THEN SyncDone("throw", err)
                   ELSE IF o.extractMetadata
                     THEN SyncDone("return",
                            [buffer |-> buffer,
                             metadata |->
                               ExtractImageMetadata(sourceMetadata, cgImage)])
                   ELSE SyncDone("return", [buffer |-> buffer])
       IN /\ files' = SyncCleanTemp(files, TempFile(0, sync.tempPath),
                                    fail # "filter")
          /\ sync' = [done EXCEPT
                        !.sourceMetadata = sourceMetadata,
                        !.rawOptions = SyncRawOptions(o),
                        !.extracted = rendered /\ o.extractMetadata,
                        !.properties =
                           IF added
                             THEN SyncEncoderProperties(sync.format, o,
                                                        sourceMetadata)
                             ELSE Nil,
                        !.exit = ExitPath(sync.format, fail),
                        !.refs =
                           [cgImage |->
                              [made |-> rendered,
                               released |->
                                 SyncCGImageRelease(
                                   ExitPath(sync.format, fail))],
                            sourceMetadataRef |->
                              [made |-> sourceMetadata # Nil,
                               released |->
                                 SyncSourceRelease(
                                   ExitPath(sync.format, fail),
                                   sourceMetadata)]]]
  /\ UNCHANGED << probe, source, cgImage, ticks, batch, handed, state, submitted, promise, calls, mem,
                  cbk, w, queue, busy, staged >>

\* a timer callback of the caller's thread: the event loop runs it when no
\* JavaScript is running; it notes what it finds (the promise of request 1,
\* where the worker is, whether convertRaw is running)
TimerTick ==
  /\ MainThreadFree
  /\ Len(ticks) < MaxTicks
  /\ ticks' = Append(ticks, [promise |-> promise[1].status,
                             worker |-> w[1].pc, sync |-> sync.pc])
  /\ UNCHANGED << probe, source, cgImage, batch, handed, state, submitted,
                  promise, calls, mem, cbk, w, queue, busy, files, staged,
                  sync >>

\* ------------------------------------------------------ argument universe
S_jpeg == <<"j","p","e","g">>
S_path == <<"f",".","r">>

Paths ==
  { <<>>, <<" ">>, S_path, <<"f">>, <<"d",".","x","/","f">>,
    <<".","r">>, <<"NUL","f">> }

AllInputs ==
  {Buf(b) : b \in BufferContents} \cup {Str(q) : q \in Paths}
    \cup {Num(123), Undefined}

AllFormats ==
  {Str(f) : f \in supportedFormats}
    \cup { Str(<<"J","P","E","G">>), Str(<<" ","P","n","g","\t">>),
           Str(<<"b","m","p">>), Str(<<"j","p","e","g","x">>),
           Str(<<>>), Str(<<" ">>), Num(123), Undefined }

AllOptions ==
  { Undefined, Null, EmptyObject,
    Str(<<>>), Str(<<"i","n","v">>), Num(0), Num(1), Bool(FALSE), Bool(TRUE),
    Obj([inputFormat |-> Str(<<"n">>)]),
    Obj([inputFormat |-> Str(<<>>)]),
    Obj([inputFormat |-> Num(5)]),
    Obj([inputFormat |-> Str(<<"n">>), preserveExifData |-> Bool(FALSE)]),
    Obj([extractMetadata |-> Bool(TRUE)]) }

AllArgs ==
  [input : AllInputs, format : AllFormats, options : AllOptions]

\* the calls the concurrent behaviours of Spec make
SomeArgs ==
  { [input |-> Buf(<<"x">>), format |-> Str(S_jpeg),
     options |-> Obj([inputFormat |-> Str(<<"n">>)])],
    [input |-> Str(S_path), format |-> Str(RgbFormat), options |-> Undefined],
    [input |-> Num(123), format |-> Str(S_jpeg), options |-> Undefined] }

AllFailures ==
  { "none", "read", "write", "filter", "noimage", "extent", "render", "rgb",
    "dest", "finalize" }

\* the failures the environment produces in the concurrent behaviours of Spec
SomeFailures == {"none", "read", "extent", "finalize"}

\* the calls of the behaviours of SpecStage: what decides the staging file
StageArgs ==
  [input : {Buf(b) : b \in BufferContents} \cup {Str(q) : q \in Paths}
             \cup {Num(123)},
   format : {Str(S_jpeg), Str(RgbFormat), Str(<<"b","m","p">>), Num(123)},
   options : { Undefined, EmptyObject,
               Obj([inputFormat |-> Str(<<"n">>)]),
               Obj([inputFormat |-> Str(<<>>)]),
               Obj([inputFormat |-> Num(5)]),
               Obj([inputFormat |-> Str(<<"n">>),
                    preserveExifData |-> Bool(FALSE)]) }]

\* ---- the options of the behaviours of SpecOpts
NumberKeys ==
  { "exposure", "boost", "boostShadowAmount", "baselineExposure",
    "neutralTemperature", "neutralTint", "colorNoiseReductionAmount",
    "luminanceNoiseReductionAmount", "contrastAmount", "sharpnessAmount",
    "noiseReductionAmount", "localToneMapAmount", "scaleFactor", "quality" }

BooleanKeys ==
  { "lensCorrection", "disableGamutMap", "allowDraftMode",
    "ignoreImageOrientation", "embedThumbnail", "optimizeColorForSharing",
    "preserveExifData", "extractMetadata" }

\* one key with one value: rightly typed, wrongly typed, or unknown
OptionEntries ==
  [key : NumberKeys,
   value : {Num(0), Num(5), Num(-5), Str(<<"5">>), Bool(TRUE), Null}]
  \cup [key : BooleanKeys,
        value : {Bool(TRUE), Bool(FALSE), Num(10), Str(<<"t">>)}]
  \cup [key : {"inputFormat"},
        value : {Str(<<"n">>), Num(5), Bool(TRUE)}]
  \cup [key : {"bogus"}, value : {Num(10)}]

\* a second key the caller sets next to the first
CompanionEntries ==
  { [key |-> "contrastAmount", value |-> Num(0)],
    [key |-> "extractMetadata", value |-> Bool(TRUE)] }

\* the options objects with one entry, or with one entry and a companion
OptsOptions ==
  {EmptyObject}
    \cup {Obj(e.key :> e.value) : e \in OptionEntries}
    \cup {Obj((e.key :> e.value) @@ (c.key :> c.value)) :
            e \in OptionEntries, c \in CompanionEntries}

OptsArgs ==
  [input : {Str(S_path)}, format : {Str(S_jpeg)}, options : OptsOptions]

\* ---- the RAW files (their metadata) of the behaviours of SpecMeta
GpsSource(lat, latRef, lon, lonRef) ==
  Dict([ Exif |-> Dict([ExposureTime |-> Num(1)]),
         GPS |-> Dict([Latitude |-> Num(lat), LatitudeRef |-> Str(latRef),
                       Longitude |-> Num(lon), LongitudeRef |-> Str(lonRef),
                       Altitude |-> Num(120)]) ])

Sources ==
  { Nil,
    Dict(<<>>),
    Dict([ Exif |-> Dict([ExposureTime |-> Num(1), FNumber |-> Num(28)]),
           TIFF |-> Dict([Make |-> Str(<<"C">>)]) ]),
    \* a zero shutter speed, a zero white balance, a negative exposure bias
    Dict([ Exif |-> Dict([ExposureTime |-> Num(0),
                          ISOSpeedRatings |-> Array(<<Num(1000), Num(2000)>>),
                          WhiteBalance |-> Num(0),
                          ExposureMode |-> Num(10),
                          ExposureBiasValue |-> Num(-10),
                          FocalLength |-> Num(500),
                          FocalLenIn35mmFilm |-> Num(750),
                          DateTimeOriginal |-> Str(<<"2","0","2","4">>),
                          LensModel |-> Str(<<"L">>)]),
           TIFF |-> Dict([Make |-> Str(<<"C">>), Model |-> Str(<<"M">>),
                          Software |-> Str(<<"s">>),
                          Orientation |-> Num(60)]) ]),
    \* an empty ISO array and an empty lens maker string
    Dict([ Exif |-> Dict([ISOSpeedRatings |-> Array(<<>>),
                          LensMake |-> Str(<<>>),
                          FNumber |-> Num(28)]) ]),
    \* a top-level entry under the key of a format property
    Dict([ Exif |-> Dict([FNumber |-> Num(28)]),
           kCGImageDestinationOptimizeColorForSharing |-> Bool(FALSE) ]),
    GpsSource(515, <<"N">>, 1, <<"W">>),
    GpsSource(338, <<"S">>, 1512, <<"E">>),
    GpsSource(0, <<"S">>, 0, <<"W">>),
    GpsSource(338, <<"s">>, 1512, <<"w">>),
    \* magnitudes without references, a reference without magnitude
    Dict([ GPS |-> Dict([Latitude |-> Num(338), Longitude |-> Num(1512),
                         LongitudeRef |-> Str(<<"W">>)]) ]),
    Dict([ GPS |-> Dict([LatitudeRef |-> Str(<<"S">>)]) ]) }

\* the options that decide what is read, extracted and encoded
MetaOptions ==
  { Undefined, EmptyObject,
    Obj([extractMetadata |-> Bool(TRUE)]),
    Obj([extractMetadata |-> Bool(TRUE), preserveExifData |-> Bool(FALSE)]),
    Obj([extractMetadata |-> Bool(FALSE)]),
    Obj([extractMetadata |-> Num(10)]),
    Obj([preserveExifData |-> Bool(FALSE)]),
    Obj([preserveExifData |-> Num(0)]),
    Obj([quality |-> Num(0)]),
    Obj([quality |-> Num(5), preserveExifData |-> Bool(FALSE)]),
    Obj([quality |-> Num(10), embedThumbnail |-> Bool(TRUE),
         optimizeColorForSharing |-> Bool(TRUE)]) }

\* every format with a few files, and every file with a few formats
MetaProbes ==
  [input : {Str(S_path)}, format : {Str(f) : f \in supportedFormats},
   options : MetaOptions,
   source : { Dict([ Exif |-> Dict([FNumber |-> Num(28)]),
                     kCGImageDestinationOptimizeColorForSharing
                       |-> Bool(FALSE) ]) }]
  \cup
  [input : {Str(S_path)}, format : {Str(S_jpeg), Str(RgbFormat)},
   options : { Obj([extractMetadata |-> Bool(TRUE)]),
               Obj([extractMetadata |-> Bool(TRUE),
                    preserveExifData |-> Bool(FALSE)]),
               EmptyObject },
   source : Sources]

\* ---- the rendered images of the behaviours of SpecRgb
MaxSide == 2

Coloured == [r |-> 10, g |-> 20, b |-> 30, a |-> 255]
Grey == [r |-> 7, g |-> 7, b |-> 7, a |-> 7]

\* images of up to MaxSide x MaxSide pixels, all grey or coloured and grey
\* in turn, in three byte orders, with rows that end with their last pixel
\* or with four padding bytes
Images ==
  UNION { [width : {wd}, height : {ht}, order : {"RGBA", "BGRA", "ARGB"},
           pad : {0, 4},
           pixels : { [k \in 1..(wd * ht) |-> Grey],
                      [k \in 1..(wd * ht) |->
                         IF k % 2 = 1 THEN Coloured ELSE Grey] }] :
            wd \in 1..MaxSide, ht \in 1..MaxSide }

\* the image rendered in the other behaviours: two pixels, RGBA, no padding
PlainImage ==
  [width |-> 2, height |-> 1, order |-> "RGBA", pad |-> 0,
   pixels |-> <<Coloured, Grey>>]

\* the batch conversion before it is started
Batch0 ==
  [pc |-> "idle", files |-> 0, maxConcurrent |-> 0, next |-> 1,
   activeCount |-> 0, completedCount |-> 0, task |-> <<>>,
   microtasks |-> <<>>]

\* what the behaviours without a batch conversion start with
InitExtra == cgImage = PlainImage /\ ticks = <<>> /\ batch = Batch0

\* the metadata of a RAW file from a camera without GPS
PlainSource ==
  Dict([ Exif |-> Dict([ExposureTime |-> Num(1), FNumber |-> Num(28)]),
         TIFF |-> Dict([Make |-> Str(<<"C">>)]) ])

\* --------------------------------------------------------- specifications
\* Spec: concurrent asynchronous requests on the worker pool
Init == probe = NoArgs /\ source = PlainSource /\ InitRest /\ InitExtra

Next ==
  \/ \E r \in Req, a \in SomeArgs : ConvertRawAsyncCall(r, a)
  \/ \E r \in Req : StartExecute(r)
  \/ \E r \in Req : ExecuteLoad(r, SomeFailures)
  \/ \E r \in Req : ExecuteRender(r, SomeFailures)
  \/ \E r \in Req : WorkComplete(r)
  \/ \E r \in Req : CallerOverwrite(r)
  \/ \E r \in Req : CallerRelease(r)

Spec == Init /\ [][Next]_vars

\* FairSpec: the requests and the pool alone (what the caller does to its
\* Buffers enables and disables no step of the pool), with the pool threads
\* and the event loop never stopping while one of them has a step to take
NextPool ==
  \/ \E r \in Req, a \in SomeArgs : ConvertRawAsyncCall(r, a)
  \/ \E r \in Req : StartExecute(r)
  \/ \E r \in Req : ExecuteLoad(r, SomeFailures)
  \/ \E r \in Req : ExecuteRender(r, SomeFailures)
  \/ \E r \in Req : WorkComplete(r)

PoolStep ==
  \E r \in Req :
    \/ StartExecute(r)
    \/ ExecuteLoad(r, SomeFailures)
    \/ ExecuteRender(r, SomeFailures)
    \/ WorkComplete(r)

Fairness == WF_vars(PoolStep)

FairSpec == Init /\ [][NextPool]_vars /\ Fairness

\* SpecArgs: one convertRaw call and one convertRawAsync call with the same
\* arguments, drawn from the whole argument universe; the pool has not yet
\* taken the request
InitArgs == probe \in AllArgs /\ source = PlainSource /\ InitRest /\ InitExtra

NextArgs ==
  \/ ConvertRawCall(probe)
  \/ ConvertRawReturn
  \/ ConvertRawAsyncCall(1, probe)

SpecArgs == InitArgs /\ [][NextArgs]_vars

\* SpecStage: one convertRaw call and one asynchronous request (through
\* index.ts or handed to the addon directly) with the same arguments, run to
\* completion under every failure of the environment
InitStage == probe \in StageArgs /\ source = PlainSource /\ InitRest /\ InitExtra

NextStage ==
  \/ ConvertRawCall(probe)
  \/ ConvertRawReturn
  \/ ConvertRawAsyncCall(1, probe)
  \/ AddonConvertRawAsyncCall(1, probe)
  \/ StartExecute(1)
  \/ ExecuteLoad(1, AllFailures)
  \/ ExecuteRender(1, AllFailures)
  \/ WorkComplete(1)

SpecStage == InitStage /\ [][NextStage]_vars

\* SpecOpts and SpecMeta: one convertRaw call and one convertRawAsync request
\* with the same arguments on the same RAW file, the worker meeting no
\* failure; SpecOpts draws the options, SpecMeta the format, the options
\* that concern metadata and quality, and the metadata of the file
NextRender ==
  \/ ConvertRawCall(probe)
  \/ ConvertRawReturn
  \/ ConvertRawAsyncCall(1, probe)
  \/ StartExecute(1)
  \/ ExecuteLoad(1, {"none"})
  \/ ExecuteRender(1, {"none"})
  \/ WorkComplete(1)

InitOpts == probe \in OptsArgs /\ source = PlainSource /\ InitRest /\ InitExtra

SpecOpts == InitOpts /\ [][NextRender]_vars

InitMeta ==
  /\ \E m \in MetaProbes :
       /\ probe = [input |-> m.input, format |-> m.format,
                   options |-> m.options]
       /\ source = m.source
  /\ InitRest /\ InitExtra

SpecMeta == InitMeta /\ [][NextRender]_vars

\* SpecRgb: the same calls for the formats rgb and png, the rendered image
\* drawn from Images
RgbArgs ==
  [input : {Str(S_path)}, format : {Str(RgbFormat), Str(<<"p","n","g">>)},
   options : {EmptyObject, Obj([extractMetadata |-> Bool(TRUE)])}]

InitRgb ==
  /\ probe \in RgbArgs /\ source = PlainSource /\ cgImage \in Images
  /\ ticks = <<>> /\ batch = Batch0 /\ InitRest

SpecRgb == InitRgb /\ [][NextRender]_vars

\* ------------------------------------- examples/batch-convert.ts
\* batchConvertRawsToJpeg(folderPath, options, useAsync = true,
\* maxConcurrent), batch-convert.ts:49-100.  batch.pc is where its async
\* body is: "loop" while it runs JavaScript, "race" and "all" while it
\* awaits; batch.task[i] is how far processFile got for the i-th file;
\* batch.microtasks is the microtask queue, first in first out.  The event
\* loop runs a callback of the native conversion or of fs.writeFile only
\* when no JavaScript runs and the microtask queue is empty.
Microtask(kind, i) == [kind |-> kind, i |-> i]

BatchOthersUnchanged ==
  UNCHANGED << probe, source, cgImage, ticks, handed, state, submitted,
               promise, calls, mem, cbk, w, queue, busy, files, staged, sync >>

Settled(b) == {i \in DOMAIN b.task : b.task[i] = "settled"}

\* the call with n RAW files in the folder
BatchStart(n, m) ==
  /\ batch.pc = "idle"
  /\ batch' = [batch EXCEPT !.pc = "loop", !.files = n, !.maxConcurrent = m]
  /\ BatchOthersUnchanged

\* one turn of `for (const file of rawFiles)` with its slot-waiting
\* `while`, lines 84-95, and `await Promise.all(promises)`, line 98
BatchLoop ==
  /\ batch.pc = "loop"
  /\ batch' =
       IF batch.next > batch.files
         THEN [batch EXCEPT
                 !.pc = "all",
                 !.microtasks =
                    IF Settled(batch) = DOMAIN batch.task
                      THEN Append(@, Microtask("finish", 0)) ELSE @]
       ELSE IF batch.activeCount >= batch.maxConcurrent
         \* Promise.race over every promise pushed so far: it is resolved
         \* at once when one of them is settled already
         THEN [batch EXCEPT
                 !.pc = "race",
                 !.microtasks =
                    IF Settled(batch) # {}
                      THEN Append(@, Microtask("resume", 0)) ELSE @]
       ELSE [batch EXCEPT
               !.activeCount = @ + 1,
               !.task = Append(@, "converting"),
               !.next = @ + 1]
  /\ BatchOthersUnchanged

\* the first microtask of the queue runs
BatchMicrotask ==
  /\ batch.pc \in {"race", "all"}
  /\ batch.microtasks # <<>>
  /\ LET m == Head(batch.microtasks)
         rest == Tail(batch.microtasks)
     IN batch' =
          CASE m.kind = "resume" ->
                 [batch EXCEPT !.pc = "loop", !.microtasks = rest]
            [] m.kind = "finish" ->
                 [batch EXCEPT !.pc = "done", !.microtasks = rest]
            \* processFile goes on after `await convertRawAsync(...)` and
            \* calls fs.writeFile, lines 63-69
            [] m.kind = "continue" ->
                 [batch EXCEPT !.task[m.i] = "writing", !.microtasks = rest]
            \* the callback of .finally, lines 90-93
            [] m.kind = "finally" ->
                 [batch EXCEPT
                    !.activeCount = @ - 1,
                    !.completedCount = @ + 1,
                    !.microtasks = Append(rest, Microtask("settle", m.i))]
            \* the promise pushed to `promises` settles
            [] m.kind = "settle" ->
                 LET task == [batch.task EXCEPT ![m.i] = "settled"]
                     resumes ==
                       /\ batch.pc = "race"
                       /\ \A k \in DOMAIN rest : rest[k].kind # "resume"
                     finishes ==
                       /\ batch.pc = "all"
                       /\ \A i \in DOMAIN task : task[i] = "settled"
                 IN [batch EXCEPT
                       !.task = task,
                       !.microtasks =
                          IF resumes THEN Append(rest, Microtask("resume", 0))
                          ELSE IF finishes
                            THEN Append(rest, Microtask("finish", 0))
                          ELSE rest]
  /\ BatchOthersUnchanged

EventLoopTurn == batch.pc \in {"race", "all"} /\ batch.microtasks = <<>>

\* the completion callback of the i-th file's native conversion: it
\* resolves or rejects the promise processFile awaits (a rejection goes to
\* the catch block, lines 71-76, which ends processFile)
BatchConversionDone(i) ==
  /\ EventLoopTurn
  /\ i \in DOMAIN batch.task /\ batch.task[i] = "converting"
  /\ \E ok \in BOOLEAN :
       batch' = [batch EXCEPT
                   !.task[i] = IF ok THEN "converted" ELSE "caught",
                   !.microtasks =
                      <<Microtask(IF ok THEN "continue" ELSE "finally", i)>>]
  /\ BatchOthersUnchanged

\* the completion of fs.writeFile for the i-th file
BatchWriteDone(i) ==
  /\ EventLoopTurn
  /\ i \in DOMAIN batch.task /\ batch.task[i] = "writing"
  /\ batch' = [batch EXCEPT !.task[i] = "written",
                            !.microtasks = <<Microtask("finally", i)>>]
  /\ BatchOthersUnchanged

\* SpecBatch: one asynchronous batch conversion; the JavaScript thread and
\* the event loop never stop while they have something to run
NextBatch ==
  \/ \E n \in 1..MaxFiles, m \in 1..MaxConcurrent : BatchStart(n, m)
  \/ BatchLoop
  \/ BatchMicrotask
  \/ \E i \in 1..MaxFiles : BatchConversionDone(i)
  \/ \E i \in 1..MaxFiles : BatchWriteDone(i)

BatchFairness ==
  /\ WF_vars(BatchLoop)
  /\ WF_vars(BatchMicrotask)
  /\ \A i \in 1..MaxFiles :
       WF_vars(BatchConversionDone(i)) /\ WF_vars(BatchWriteDone(i))

SpecBatch == Init /\ [][NextBatch]_vars /\ BatchFairness

\* SpecTick: one convertRaw call and one convertRawAsync request beside a
\* timer of the caller's thread (setInterval, part_009:720-723 and 769-772)
TickArgs ==
  { [input |-> Str(S_path), format |-> Str(S_jpeg), options |-> EmptyObject],
    [input |-> Buf(<<"x">>), format |-> Str(S_jpeg),
     options |-> Obj([inputFormat |-> Str(<<"n">>)])] }

InitTick ==
  /\ probe \in TickArgs /\ source = PlainSource /\ InitRest /\ InitExtra

NextTick ==
  \/ ConvertRawCall(probe)
  \/ ConvertRawReturn
  \/ ConvertRawAsyncCall(1, probe)
  \/ StartExecute(1)
  \/ ExecuteLoad(1, {"none"})
  \/ ExecuteRender(1, {"none"})
  \/ WorkComplete(1)
  \/ TimerTick

SpecTick == InitTick /\ [][NextTick]_vars

\* SpecPair: the requests of Spec on a pool with a thread for each of them
\* (libuv's default pool has four), so that their workers run side by side
NextPair ==
  \/ \E r \in Req, a \in SomeArgs : ConvertRawAsyncCall(r, a)
  \/ \E r \in Req : StartExecuteOn(r, MaxReq)
  \/ \E r \in Req : ExecuteLoad(r, SomeFailures)
  \/ \E r \in Req : ExecuteRender(r, SomeFailures)
  \/ \E r \in Req : WorkComplete(r)

SpecPair == Init /\ [][NextPair]_vars

\* SpecRes: the addon's two entry points called without the wrapper, for
\* formats inside and outside its table, every stage free to fail
ResArgs ==
  [input : {Str(S_path)},
   format : {Str(S_jpeg), Str(RgbFormat), Str(<<"b","m","p">>)},
   options : {EmptyObject, Obj([preserveExifData |-> Bool(FALSE)])}]

InitRes ==
  /\ probe \in ResArgs /\ source \in {PlainSource, Nil}
  /\ cgImage = PlainImage /\ ticks = <<>> /\ batch = Batch0 /\ InitRest

NextRes ==
  \/ AddonConvertRawCall(probe)
  \/ ConvertRawReturn
  \/ AddonConvertRawAsyncCall(1, probe)
  \/ StartExecute(1)
  \/ ExecuteLoad(1, AllFailures)
  \/ ExecuteRender(1, AllFailures)
  \/ WorkComplete(1)

SpecRes == InitRes /\ [][NextRes]_vars

\* ------------------------------------------------------------------ claims
Terminal == {"Succeeded", "Failed"}
InFlight == {"Queued", "Executing"}

LifecycleSteps ==
  { <<"Idle", "Rejected">>, <<"Idle", "Queued">>, <<"Queued", "Executing">>,
    <<"Executing", "Succeeded">>, <<"Executing", "Failed">> }

DeliveredOnce(r) ==
  /\ calls[r].resolve + calls[r].reject <= 1
  /\ calls[r].ok + calls[r].error <= 1
  /\ state[r] \in InFlight =>
       /\ calls[r].resolve + calls[r].reject = 0
       /\ calls[r].ok + calls[r].error = 0
       /\ promise[r].status = "pending"
  /\ state[r] = "Succeeded" =>
       /\ calls[r].resolve = 1 /\ calls[r].reject = 0
       /\ calls[r].ok = 1 /\ calls[r].error = 0
       /\ promise[r].status = "resolved"
       /\ "buffer" \in DOMAIN promise[r].value
  /\ state[r] = "Failed" =>
       /\ calls[r].resolve = 0 /\ calls[r].reject = 1
       /\ calls[r].ok = 0 /\ calls[r].error = 1
       /\ promise[r].status = "rejected"
       /\ promise[r].value = w[r].errmsg

\* C1: every convertRawAsync request moves only along Queued -> Executing ->
\* {Succeeded, Failed} (or is rejected on submission), a request in flight
\* has had no delivery, and a finished one has had exactly one: one resolve
\* with an OutputImage and one success callback, or one reject with the
\* worker's error and one error callback, never both and never twice.
C1_SingleDelivery ==
  /\ [](\A r \in Req : DeliveredOnce(r))
  /\ [][\A r \in Req :
          state'[r] # state[r] => <<state[r], state'[r]>> \in LifecycleSteps]_vars

\* one request succeeded and another failed
C1_Witness ==
  \E r, q \in Req : state[r] = "Succeeded" /\ state[q] = "Failed"

\* C2: under a fair pool and event loop every request that was queued or is
\* executing eventually is Succeeded or Failed with its promise settled.
C2_EventuallySettles ==
  \A r \in Req :
    (state[r] \in InFlight)
      ~> (state[r] \in Terminal /\ promise[r].status \in {"resolved", "rejected"})

\* more requests than pool threads were submitted, and all of them finished
C2_Witness ==
  /\ MaxReq > PoolSize
  /\ \A r \in Req : state[r] \in Terminal
  /\ \E r \in Req : promise[r].status = "resolved"

\* ---- helpers of the claims about the argument checks (SpecArgs: the
\* ---- convertRaw call is owner 0, the convertRawAsync call is request 1)
\* the claims' closed set of output formats
ClaimedFormats ==
  { <<"j","p","e","g">>, <<"j","p","g">>, <<"p","n","g">>,
    <<"t","i","f","f">>, <<"t","i","f">>,
    <<"j","p","e","g","2","0","0","0">>, <<"j","p","2">>,
    <<"h","e","i","f">>, <<"h","e","i","c">>, <<"r","g","b">> }

\* a format string as the claims match it: trimmed, case ignored
Normalized(f) == ToLowerCase(Trim(f))

ValidInput(a) ==
  \/ a.input.t = "Buffer" /\ a.input.v # <<>>
  \/ a.input.t = "string" /\ Trim(a.input.v) # <<>>

SupportedFormat(a) ==
  a.format.t = "string" /\ Normalized(a.format.v) \in ClaimedFormats

NonObject(x) == x.t \in {"string", "number", "boolean"}

\* convertRaw has not called the addon, and once it is over it threw e
SyncThrewBeforeAddon(e) ==
  /\ sync.addon = 0
  /\ handed[0] = NoArgs
  /\ staged[0] = <<>>
  /\ sync.calls >= 1 => sync.result = [tag |-> "throw", value |-> e]

\* convertRawAsync has not called the addon, and once it is over its promise
\* is rejected with e and nothing is on the work queue
AsyncRejectedBeforeAddon(e) ==
  /\ calls[1].addon = 0
  /\ handed[1] = NoArgs
  /\ queue = <<>>
  /\ state[1] # "Idle" =>
       /\ state[1] = "Rejected"
       /\ promise[1] = [status |-> "rejected", value |-> e]
       /\ calls[1].reject = 1 /\ calls[1].resolve = 0

\* the messages of the validation errors that match what is wrong with a
InvalidCases(a) ==
  (IF a.input.t \notin {"Buffer", "string"}
     THEN {"Input must be a Buffer or file path string"} ELSE {})
  \cup (IF a.input.t = "Buffer" /\ a.input.v = <<>>
          THEN {"Input buffer is empty"} ELSE {})
  \cup (IF a.input.t = "string" /\ Trim(a.input.v) = <<>>
          THEN {"File path cannot be empty"} ELSE {})
  \cup (IF a.format.t # "string" \/ Normalized(a.format.v) = <<>>
          THEN {"Output format must be a non-empty string"} ELSE {})
  \cup (IF a.format.t = "string" /\ Normalized(a.format.v) # <<>>
             /\ Normalized(a.format.v) \notin ClaimedFormats
          THEN {"Unsupported output format"} ELSE {})
  \cup (IF a.input.t = "Buffer" /\ GetProp(a.options, "inputFormat") = Undefined
          THEN {"inputFormat is required when input is a Buffer"} ELSE {})
  \cup (IF NonObject(a.options) THEN {"Options must be an object"} ELSE {})

\* C3: whenever an argument of convertRawAsync is invalid (input neither
\* Buffer nor string, empty buffer, blank path, bad or unsupported output
\* format, Buffer without inputFormat, non-object options) the promise is
\* rejected with a validation error that matches one of the invalid
\* arguments, the addon's convertRawAsync is not called and no work is
\* queued.
C3_InvalidArgumentsRejected ==
  InvalidCases(probe) # {} =>
    /\ calls[1].addon = 0
    /\ queue = <<>>
    /\ state[1] # "Idle" =>
         /\ state[1] = "Rejected"
         /\ promise[1].status = "rejected"
         /\ promise[1].value.message \in InvalidCases(probe)

ValidationMessages ==
  { "Input must be a Buffer or file path string", "Input buffer is empty",
    "File path cannot be empty", "Output format must be a non-empty string",
    "Unsupported output format",
    "inputFormat is required when input is a Buffer",
    "Options must be an object" }

SyncValidationError ==
  sync.result.tag = "throw" /\ sync.result.value.message \in ValidationMessages

AsyncValidationError ==
  promise[1].status = "rejected"
    /\ promise[1].value.message \in ValidationMessages

\* C4: for the same input, output format and options convertRaw throws a
\* validation error exactly when convertRawAsync rejects with one, the two
\* errors are equal (name, message and the format the message quotes), and
\* at that point no staging file was written and no work was queued.
C4_SameValidation ==
  (sync.calls >= 1 /\ sync.pc = "idle" /\ state[1] # "Idle") =>
    /\ SyncValidationError <=> AsyncValidationError
    /\ SyncValidationError =>
         /\ sync.result.value = promise[1].value
         /\ staged[0] = <<>> /\ staged[1] = <<>>
         /\ files = {} /\ queue = <<>>
         /\ state[1] = "Rejected"

\* both entry points refused non-object options with the same error
C4_Witness ==
  /\ sync.calls >= 1 /\ sync.pc = "idle"
  /\ sync.result = [tag |-> "throw",
                    value |-> Err("TypeError", "Options must be an object")]
  /\ promise[1] = [status |-> "rejected",
                   value |-> Err("TypeError", "Options must be an object")]

\* C5: for a Buffer input the worker holds a private live copy of the
\* submitted bytes from the moment the request is queued until it completes,
\* the image data it stages is those bytes, and a successful result is the
\* encoding of the submitted bytes, whatever the caller did to its Buffer.
C5_WorkerReadsPrivateCopy ==
  \A r \in Req :
    IsBuffer(submitted[r].input) =>
      /\ state[r] \in InFlight =>
           /\ w[r].bufferData_ = "copy"
           /\ mem[r].copy = Live(submitted[r].input.v)
      /\ w[r].pc = "staged" => w[r].imageData = submitted[r].input.v
      /\ state[r] = "Succeeded" =>
           promise[r].value =
             [buffer |-> Encoded(submitted[r].input.v, w[r].format_)]

\* two Buffer requests succeeded, one whose Buffer the caller overwrote and
\* one whose Buffer the caller released before completion
C5_Witness ==
  \E r, q \in Req :
    /\ state[r] = "Succeeded" /\ state[q] = "Succeeded"
    /\ IsBuffer(submitted[r].input) /\ IsBuffer(submitted[q].input)
    /\ mem[r].caller.st = "live"
    /\ mem[r].caller.data # submitted[r].input.v
    /\ mem[q].caller.st = "freed"

WorkerAlive(r) == w[r].pc \in {"queued", "load", "staged", "returned"}

\* C6: the worker's input copy, its output buffer and the callback wrapper
\* are released at most once; none of them is released before the
\* completion callback; after it the copy is released once if one was made,
\* the output buffer once if one was produced, the callback wrapper once;
\* and when the addon's ConvertRawAsync throws on its arguments no copy
\* exists, no worker was built and the callback wrapper is released once.
C6_ReleasedExactlyOnce ==
  \A r \in Req :
    /\ mem[r].copy.frees <= 1 /\ mem[r].out.frees <= 1 /\ cbk[r].frees <= 1
    /\ WorkerAlive(r) =>
         /\ mem[r].copy.frees = 0 /\ mem[r].out.frees = 0
         /\ cbk[r] = [st |-> "live", frees |-> 0]
         /\ mem[r].copy.st =
              IF IsBuffer(handed[r].input) THEN "live" ELSE "unalloc"
    /\ state[r] \in Terminal =>
         /\ calls[r].ok + calls[r].error = 1
         /\ mem[r].copy.st =
              IF IsBuffer(handed[r].input) THEN "freed" ELSE "unalloc"
         /\ mem[r].copy.frees = IF IsBuffer(handed[r].input) THEN 1 ELSE 0
         /\ mem[r].out.st =
              IF state[r] = "Succeeded" THEN "freed" ELSE "unalloc"
         /\ mem[r].out.frees = IF state[r] = "Succeeded" THEN 1 ELSE 0
         /\ cbk[r] = [st |-> "freed", frees |-> 1]
    /\ (state[r] = "Rejected" /\ calls[r].addon = 1) =>
         /\ mem[r].copy = Cell0 /\ mem[r].out = Cell0
         /\ w[r] = Worker0
         /\ cbk[r] = [st |-> "freed", frees |-> 1]

\* a Buffer request succeeded: its copy and its output were both released
C6_Witness ==
  \E r \in Req :
    /\ state[r] = "Succeeded"
    /\ IsBuffer(handed[r].input)
    /\ mem[r].copy.frees = 1 /\ mem[r].out.frees = 1

\* C7: no staging file written by convertRaw exists once convertRaw has
\* returned or thrown, and none written by a worker exists once its Execute
\* has returned, whatever stage failed.
C7_StagingFileRemoved ==
  /\ sync.pc = "idle" => \A f \in files : f.owner # 0
  /\ \A r \in Req :
       w[r].pc \in {"returned", "destroyed"} => \A f \in files : f.owner # r

\* a request failed at filter creation after it wrote its staging file, and
\* no staging file is left
C7_Witness ==
  /\ state[1] = "Failed"
  /\ w[1].errmsg = Err("Error", "Failed to create CIRAWFilter from image data")
  /\ staged[1] # <<>>
  /\ files = {}

\* the inputFormat hint of a call, <<>> when none is given
Hint(a) ==
  LET v == GetProp(a.options, "inputFormat")
  IN IF v.t = "string" THEN v.v ELSE <<>>

ExpectedExtension(a) ==
  IF Hint(a) # <<>> THEN Hint(a)
  ELSE IF a.input.t = "string" /\ PathExtension(a.input.v) # <<>>
    THEN PathExtension(a.input.v)
  ELSE <<>>

UnsupportedMessages ==
  {"Unsupported output format", "Unsupported output format (addon)"}

\* an accepted format reaches the addon normalized and inside its table
AcceptedNormalized(nf) ==
  /\ sync.result.tag = "throw" =>
       sync.result.value.message \notin UnsupportedMessages
  /\ promise[1].status = "rejected" =>
       promise[1].value.message \notin UnsupportedMessages
  /\ \A o \in {0, 1} :
       handed[o] # NoArgs =>
         /\ handed[o].format = Str(nf)
         /\ nf = RgbFormat \/ outputUTI(nf) # ""

\* C9 (as corrected): with a valid input, a format string that is not blank
\* and, trimmed and lower-cased, lies outside the closed set makes convertRaw
\* throw and convertRawAsync reject with 'Unsupported output format' quoting
\* the string, the addon not being called; a format string inside the set
\* never fails as unsupported, reaches the addon trimmed and lower-cased, and
\* is a key of the addon's format table (or rgb).
C9_FormatMatching ==
  (ValidInput(probe) /\ probe.format.t = "string") =>
    LET nf == Normalized(probe.format.v)
    IN /\ (nf # <<>> /\ nf \notin ClaimedFormats) =>
            /\ SyncThrewBeforeAddon(UnsupportedFormatError(probe.format.v))
            /\ AsyncRejectedBeforeAddon(UnsupportedFormatError(probe.format.v))
       /\ nf \in ClaimedFormats => AcceptedNormalized(nf)

\* ' Png<tab>' was converted by convertRaw and queued by convertRawAsync as png
C9_Witness ==
  /\ probe.format = Str(<<" ","P","n","g","\t">>)
  /\ sync.result.tag = "return"
  /\ handed[0].format = Str(<<"p","n","g">>)
  /\ handed[1].format = Str(<<"p","n","g">>)
  /\ state[1] = "Queued"

\* C9 as stated: with a valid input, every format string that, trimmed and
\* lower-cased, lies outside the closed set fails on both entry points with
\* 'Unsupported output format' without the addon being called, and every
\* string inside the set reaches the addon normalized.
C9_AnyOutsideStringUnsupported ==
  (ValidInput(probe) /\ probe.format.t = "string") =>
    LET nf == Normalized(probe.format.v)
    IN /\ nf \notin ClaimedFormats =>
            /\ SyncThrewBeforeAddon(UnsupportedFormatError(probe.format.v))
            /\ AsyncRejectedBeforeAddon(UnsupportedFormatError(probe.format.v))
       /\ nf \in ClaimedFormats => AcceptedNormalized(nf)

\* C10: for a path input and a supported format, options that are a string,
\* a number or a boolean (including '', 0 and false) make convertRaw throw
\* and convertRawAsync reject with 'Options must be an object', the addon
\* not being called.
C10_NonObjectOptionsRejected ==
  (probe.input.t = "string" /\ ValidInput(probe) /\ SupportedFormat(probe)
     /\ NonObject(probe.options)) =>
    /\ SyncThrewBeforeAddon(Err("TypeError", "Options must be an object"))
    /\ AsyncRejectedBeforeAddon(Err("TypeError", "Options must be an object"))

\* ------------------------------------------------ option normalization
\* the type the normalizer accepts for a recognised key
ExpectedType(key) ==
  IF key \in NumberKeys THEN "number"
  ELSE IF key \in BooleanKeys THEN "boolean"
  ELSE "string"

RecognizedKeys == NumberKeys \cup BooleanKeys \cup {"inputFormat"}

WronglyTyped(options, key) ==
  /\ key \in RecognizedKeys
  /\ HasProp(options, key)
  /\ options.v[key].t # ExpectedType(key)

\* the caller's options without one key
Without(options, key) ==
  Obj([x \in DOMAIN options.v \ {key} |-> options.v[x]])

\* the options object the wrapper hands to the addon
GivenOptions == IF probe.options = Undefined THEN EmptyObject ELSE probe.options

\* C11: normalizing an options object never fails because of an unknown key
\* or a wrongly typed value: no call is refused for its options, a wrongly
\* typed recognised key leaves its field at the default, an unknown key
\* changes nothing, and every other field is what it would be without the
\* key, in convertRaw and in the worker alike.
C11_NormalizationTolerant ==
  /\ sync.result.tag = "throw" =>
       sync.result.value.message \notin ValidationMessages
  /\ promise[1].status # "rejected"
  /\ \A key \in DOMAIN GivenOptions.v :
       (WronglyTyped(GivenOptions, key) \/ key \notin RecognizedKeys) =>
         /\ sync.pc = "staged" =>
              /\ key \in RecognizedKeys =>
                   sync.options[key] = DefaultOptions[key]
              /\ sync.options = ParseOptionsSync(Without(GivenOptions, key))
         /\ w[1].pc # "none" =>
              /\ key \in RecognizedKeys =>
                   w[1].options_[key] = DefaultOptions[key]
              /\ w[1].options_ = ParseOptionsAsync(Without(GivenOptions, key))

\* both paths normalized { preserveExifData: 1.0, contrastAmount: 0 }: the
\* number leaves preserveExifData at true, the contrast is taken
C11_Witness ==
  /\ sync.pc = "staged" /\ w[1].pc = "returned"
  /\ GetProp(probe.options, "preserveExifData") = Num(10)
  /\ sync.options.preserveExifData /\ w[1].options_.preserveExifData
  /\ sync.options.contrastAmount = 0 /\ w[1].options_.contrastAmount = 0

\* ------------------------------------------- render engine parameters
\* the options whose unset value is the sentinel -1.0, with their parameter
SentinelOptions ==
  [neutralTemperature |-> "kCIInputNeutralTemperatureKey",
   neutralTint |-> "kCIInputNeutralTintKey",
   colorNoiseReductionAmount |-> "kCIInputColorNoiseReductionAmountKey",
   luminanceNoiseReductionAmount |-> "kCIInputLuminanceNoiseReductionAmountKey",
   contrastAmount |-> "kCIInputContrastKey",
   sharpnessAmount |-> "kCIInputSharpnessKey",
   noiseReductionAmount |-> "kCIInputNoiseReductionAmountKey",
   localToneMapAmount |-> "kCIInputLocalToneMapAmountKey"]

\* the parameter dictionaries built so far, each with its normalized options
BuiltRawOptions ==
  (IF sync.rawOptions # Nil
     THEN {[options |-> sync.options, rawOptions |-> sync.rawOptions.v]}
     ELSE {})
  \cup (IF w[1].rawOptions # Nil
          THEN {[options |-> w[1].options_, rawOptions |-> w[1].rawOptions.v]}
          ELSE {})

\* C12: for the eight options with the unset sentinel, the parameters given
\* to the render engine hold the option's parameter only when the
\* normalized value is >= 0 (that is, when the caller gave a number >= 0),
\* then with that value, and never the sentinel; an omitted option yields
\* no parameter; in convertRaw and in the worker alike.  (A value >= 0 is
\* always forwarded, localToneMapAmount depending on the system version.)
C12_SentinelNeverForwarded ==
  \A b \in BuiltRawOptions : \A s \in DOMAIN SentinelOptions :
    LET given == GetProp(GivenOptions, s)
        param == SentinelOptions[s]
    IN /\ param \in DOMAIN b.rawOptions =>
            /\ b.options[s] >= 0
            /\ given.t = "number" /\ given.v >= 0
            /\ b.rawOptions[param] = given
       /\ (s # "localToneMapAmount" /\ b.options[s] >= 0) =>
            param \in DOMAIN b.rawOptions
       /\ ~HasProp(GivenOptions, s) => param \notin DOMAIN b.rawOptions

\* both paths built the parameters of { sharpnessAmount: -0.5,
\* contrastAmount: 0 }: the contrast is forwarded as 0, the sharpness and
\* the omitted neutralTint are not
C12_Witness ==
  /\ GetProp(probe.options, "sharpnessAmount") = Num(-5)
  /\ GetProp(probe.options, "contrastAmount") = Num(0)
  /\ Cardinality(BuiltRawOptions) = 1
  /\ sync.rawOptions # Nil /\ w[1].rawOptions # Nil
  /\ \A b \in BuiltRawOptions :
       /\ b.rawOptions["kCIInputContrastKey"] = Num(0)
       /\ "kCIInputSharpnessKey" \notin DOMAIN b.rawOptions
       /\ "kCIInputNeutralTintKey" \notin DOMAIN b.rawOptions

\* every numeric rendering option with its render engine parameter
NumericRenderOptions ==
  [exposure |-> "kCIInputEVKey",
   boost |-> "kCIInputBoostKey",
   baselineExposure |-> "kCIInputBaselineExposureKey",
   boostShadowAmount |-> "kCIInputBoostShadowAmountKey",
   scaleFactor |-> "kCIInputScaleFactorKey"] @@ SentinelOptions

\* C13: for every numeric rendering option, a caller-supplied 0 reaches the
\* render engine as the option's parameter with value 0, and an omitted
\* option reaches it with no caller-chosen value (no parameter, or the
\* option's documented default), in convertRaw and in the worker.
C13_ZeroDistinctFromUnset ==
  \A b \in BuiltRawOptions : \A s \in DOMAIN NumericRenderOptions :
    LET param == NumericRenderOptions[s]
    IN /\ GetProp(GivenOptions, s) = Num(0) =>
            /\ param \in DOMAIN b.rawOptions
            /\ b.rawOptions[param] = Num(0)
       /\ ~HasProp(GivenOptions, s) =>
            \/ param \notin DOMAIN b.rawOptions
            \/ b.rawOptions[param] = Num(DefaultOptions[s])

\* ------------------------------------------------------ image metadata
\* the OutputImage objects returned so far, convertRaw's and the promise's
SyncOutput == sync.result.value
AsyncOutput == promise[1].value
SyncReturned == sync.result.tag = "return"
AsyncResolved == promise[1].status = "resolved"

\* C14: the OutputImage returned by convertRaw and the one the promise of
\* convertRawAsync resolves with have a metadata field exactly when the
\* extractMetadata option is the boolean true, for every output format,
\* rgb included; with the option omitted no extraction runs on either
\* path.
C14_MetadataIffRequested ==
  LET requested == GetProp(GivenOptions, "extractMetadata") = Bool(TRUE)
  IN /\ SyncReturned => ("metadata" \in DOMAIN SyncOutput <=> requested)
     /\ AsyncResolved => ("metadata" \in DOMAIN AsyncOutput <=> requested)
     /\ ~HasProp(GivenOptions, "extractMetadata") =>
          /\ ~sync.extracted
          /\ w[1].metadataStorage_ = MetadataStorage0

\* both paths returned raw pixels (rgb) with metadata for extractMetadata:
\* true
C14_Witness ==
  /\ probe.format = Str(RgbFormat)
  /\ GetProp(probe.options, "extractMetadata") = Bool(TRUE)
  /\ SyncReturned /\ "metadata" \in DOMAIN SyncOutput
  /\ AsyncResolved /\ "metadata" \in DOMAIN AsyncOutput

\* C15: the source metadata is read whenever preserveExifData or
\* extractMetadata is requested, so that extracted metadata carries the
\* source's camera and EXIF fields also with preserveExifData false.
C15_SourceReadWhenRequested ==
  /\ (sync.rawOptions # Nil
        /\ (sync.options.preserveExifData \/ sync.options.extractMetadata)) =>
       sync.sourceMetadata = source
  /\ (w[1].rawOptions # Nil
        /\ (w[1].options_.preserveExifData \/ w[1].options_.extractMetadata)) =>
       w[1].sourceMetadata = source
  /\ (SyncReturned /\ "metadata" \in DOMAIN SyncOutput) =>
       SyncOutput.metadata = ExtractImageMetadata(source, cgImage)
  /\ (AsyncResolved /\ "metadata" \in DOMAIN AsyncOutput) =>
       AsyncOutput.metadata =
         StorageMetadata(FillMetadataStorage(source, cgImage))

\* the source metadata holds a value for a field of ImageMetadata
SourceHolds(src, f) ==
  /\ src # Nil
  /\ f.dict \in DOMAIN src.v
  /\ f.key \in DOMAIN src.v[f.dict].v
  /\ f.kind = "first" => src.v[f.dict].v[f.key].v # <<>>

\* the metadata objects returned so far, each with the source metadata read
ReturnedMetadata ==
  (IF SyncReturned /\ "metadata" \in DOMAIN SyncOutput
     THEN {[path |-> "sync", metadata |-> SyncOutput.metadata,
            read |-> sync.sourceMetadata]}
     ELSE {})
  \cup (IF AsyncResolved /\ "metadata" \in DOMAIN AsyncOutput
          THEN {[path |-> "async", metadata |-> AsyncOutput.metadata,
                 read |-> w[1].sourceMetadata]}
          ELSE {})

\* C16: the ImageMetadata returned by either path holds a field exactly
\* when the source metadata that was read holds it, and then with the
\* source's value, a zero or an empty value included; an absent field is
\* omitted.
C16_FieldIffSourceHolds ==
  \A m \in ReturnedMetadata : \A f \in MetadataFields :
    /\ f.name \in DOMAIN m.metadata <=> SourceHolds(m.read, f)
    /\ f.name \in DOMAIN m.metadata =>
         m.metadata[f.name] = Boxed(f, FieldValue(m.read, f))

\* the GPS dictionary of the source metadata read, empty when there is none
GpsOf(src) ==
  IF src # Nil /\ "GPS" \in DOMAIN src.v THEN src.v.GPS.v ELSE <<>>

\* a coordinate of ImageMetadata is there only with magnitude and
\* reference, and is the magnitude, negated exactly for one reference
SignedCoordinate(m, name, key, refKey, negative) ==
  LET gps == GpsOf(m.read)
  IN /\ name \in DOMAIN m.metadata <=>
          (key \in DOMAIN gps /\ refKey \in DOMAIN gps)
     /\ name \in DOMAIN m.metadata =>
          m.metadata[name] =
            Num(IF gps[refKey] = Str(negative) THEN -gps[key].v
                ELSE gps[key].v)

\* C17: the extracted latitude is the source magnitude, negated exactly
\* when the latitude reference is 'S', the longitude is negated exactly
\* when the longitude reference is 'W'; each is reported only when its
\* magnitude and its reference are both in the source (and then always,
\* for coordinates that are valid degrees); convertRaw and
\* convertRawAsync report the same for the same call.
C17_HemisphereSign ==
  /\ \A m \in ReturnedMetadata :
       /\ SignedCoordinate(m, "latitude", "Latitude", "LatitudeRef", <<"S">>)
       /\ SignedCoordinate(m, "longitude", "Longitude", "LongitudeRef",
                           <<"W">>)
  /\ \A m, n \in ReturnedMetadata : \A name \in {"latitude", "longitude"} :
       /\ name \in DOMAIN m.metadata <=> name \in DOMAIN n.metadata
       /\ name \in DOMAIN m.metadata => m.metadata[name] = n.metadata[name]

\* both paths report latitude -33.8 and longitude 151.2 for a file taken at
\* 33.8 S, 151.2 E
C17_Witness ==
  /\ source = GpsSource(338, <<"S">>, 1512, <<"E">>)
  /\ Cardinality(ReturnedMetadata) = 2
  /\ \A m \in ReturnedMetadata :
       /\ m.read = source
       /\ m.metadata["latitude"] = Num(-338)
       /\ m.metadata["longitude"] = Num(1512)

\* ------------------------------------------------- encoder properties
LossyFormats ==
  { <<"j","p","e","g">>, <<"j","p","g">>, <<"h","e","i","f">>,
    <<"h","e","i","c">>, <<"j","p","e","g","2","0","0","0">>, <<"j","p","2">> }

\* the properties given to the encoder so far, each with the format, the
\* normalized options and the source metadata of its call
EncoderInputs ==
  (IF sync.properties # Nil
     THEN {[path |-> "sync", format |-> sync.format,
            options |-> sync.options, read |-> sync.sourceMetadata,
            properties |-> sync.properties.v]}
     ELSE {})
  \cup (IF w[1].properties # Nil
          THEN {[path |-> "async", format |-> w[1].format_,
                 options |-> w[1].options_, read |-> w[1].sourceMetadata,
                 properties |-> w[1].properties.v]}
          ELSE {})

\* C18: the properties the encoder receives hold a compression quality
\* exactly for the formats jpeg, jpg, heif, heic, jpeg2000 and jp2; the
\* quality is the caller's when the caller gave one (a number in 0..1) and
\* 0.9 otherwise; png, tiff and tif get none, whatever the caller passes.
C18_QualityOnlyForLossy ==
  \A e \in EncoderInputs :
    LET key == "kCGImageDestinationLossyCompressionQuality"
        given == GetProp(GivenOptions, "quality")
    IN /\ key \in DOMAIN e.properties <=> e.format \in LossyFormats
       /\ e.format \in {<<"p","n","g">>, <<"t","i","f","f">>, <<"t","i","f">>}
            => key \notin DOMAIN e.properties
       /\ key \in DOMAIN e.properties =>
            e.properties[key] = IF given.t = "number" THEN given ELSE Num(9)

\* both paths encoded a png for a caller who passed quality 0.5: no
\* compression quality reached the encoder
C18_Witness ==
  /\ probe.format = Str(<<"p","n","g">>)
  /\ GetProp(probe.options, "quality") = Num(5)
  /\ Cardinality(EncoderInputs) = 2
  /\ \A e \in EncoderInputs :
       "kCGImageDestinationLossyCompressionQuality" \notin DOMAIN e.properties

\* the format-specific properties of an encoder input
FormatProperties(e) ==
  IF e.path = "sync" THEN SyncProperties(e.format, e.options)
  ELSE AsyncProperties(e.format, e.options)

\* base overlaid with over, plus the merge-metadata flag
Overlaid(base, over) ==
  [k \in DOMAIN base \cup DOMAIN over \cup {"kCGImageDestinationMergeMetadata"}
     |-> IF k = "kCGImageDestinationMergeMetadata" THEN Bool(TRUE)
         ELSE IF k \in DOMAIN over THEN over[k]
         ELSE base[k]]

\* C19: when preserveExifData is true and source metadata was read, the
\* encoder is given the source metadata overlaid with the format-specific
\* properties (the format property winning on a shared key) and the
\* merge-metadata flag; otherwise it is given exactly the format-specific
\* properties; in convertRaw and in the worker.
C19_EncoderProperties ==
  \A e \in EncoderInputs :
    IF e.options.preserveExifData /\ e.read # Nil
      THEN e.properties = Overlaid(e.read.v, FormatProperties(e))
      ELSE e.properties = FormatProperties(e)

\* both paths encoded a jpeg with optimizeColorForSharing for a source that
\* has an entry under the same key: the encoder got the source's Exif, the
\* merge flag, and the caller's value under the shared key
C19_Witness ==
  /\ Cardinality(EncoderInputs) = 2
  /\ \A e \in EncoderInputs :
       /\ e.format = S_jpeg
       /\ e.read # Nil
       /\ "kCGImageDestinationOptimizeColorForSharing" \in DOMAIN e.read.v
       /\ e.read.v["kCGImageDestinationOptimizeColorForSharing"] = Bool(FALSE)
       /\ e.properties["kCGImageDestinationOptimizeColorForSharing"]
            = Bool(TRUE)
       /\ e.properties["kCGImageDestinationMergeMetadata"] = Bool(TRUE)
       /\ e.properties["Exif"] = e.read.v["Exif"]

\* C20: with preserveExifData absent (or not a boolean) the option is true:
\* the source metadata is read and the source's EXIF dictionary is given
\* to the encoder with the merge flag; with preserveExifData false, for
\* the same input, no source metadata is read and the encoder is given
\* nothing but the format-specific properties.
C20_ExifPreservedByDefault ==
  LET given == GetProp(GivenOptions, "preserveExifData")
  IN /\ given = Bool(FALSE) =>
          /\ sync.sourceMetadata = Nil /\ w[1].sourceMetadata = Nil
          /\ \A e \in EncoderInputs :
               /\ ~e.options.preserveExifData
               /\ e.properties = FormatProperties(e)
               /\ "Exif" \notin DOMAIN e.properties
     /\ given.t # "boolean" =>
          \A e \in EncoderInputs :
            /\ e.options.preserveExifData
            /\ e.read = source
            /\ (source # Nil /\ "Exif" \in DOMAIN source.v) =>
                 /\ e.properties["Exif"] = source.v["Exif"]
                 /\ e.properties["kCGImageDestinationMergeMetadata"]
                      = Bool(TRUE)

\* both paths encoded a jpeg with preserveExifData false from a file that
\* has EXIF data: no EXIF dictionary reached the encoder
C20_Witness ==
  /\ GetProp(probe.options, "preserveExifData") = Bool(FALSE)
  /\ source # Nil /\ "Exif" \in DOMAIN source.v
  /\ Cardinality(EncoderInputs) = 2
  /\ \A e \in EncoderInputs :
       e.format = S_jpeg /\ "Exif" \notin DOMAIN e.properties

\* ------------------------------------------------------ raw RGB output
\* the buffers returned so far for the format rgb
RgbBuffers ==
  (IF SyncReturned /\ sync.format = RgbFormat
     THEN {[path |-> "sync", bytes |-> SyncOutput.buffer.bytes]} ELSE {})
  \cup (IF AsyncResolved /\ w[1].format_ = RgbFormat
          THEN {[path |-> "async", bytes |-> AsyncOutput.buffer.bytes]}
          ELSE {})

\* C21: for the format rgb the buffer returned by convertRaw and the one
\* delivered by convertRawAsync have exactly width * height * 3 bytes of
\* the rendered image, whichever path of ExtractRgbData produced them, and
\* nothing is handed to a container encoder.
C21_RgbLength ==
  /\ \A b \in RgbBuffers :
       Len(b.bytes) = cgImage.width * cgImage.height * 3
  /\ probe.format = Str(RgbFormat) =>
       sync.properties = Nil /\ w[1].properties = Nil

\* both paths returned the 12 bytes of a 2 x 2 image whose rows are padded,
\* which only the bitmap context can read
C21_Witness ==
  /\ cgImage.width = 2 /\ cgImage.height = 2 /\ cgImage.pad = 4
  /\ Cardinality(RgbBuffers) = 2
  /\ \A b \in RgbBuffers : Len(b.bytes) = 12

\* C22: for the same rendered image the direct-access path of
\* ExtractRgbData, open whenever the backing data has width * height * 4
\* bytes, and the bitmap-context fallback give the same bytes: a returned
\* rgb buffer is what every open path makes of the image.
C22_RgbPathsAgree ==
  \A b \in RgbBuffers : \A path \in RgbPaths(cgImage) :
    b.bytes = ExtractRgbData(cgImage, path)

\* ----------------------------------------------------- owned references
\* the exits of convertRaw and of the worker's Execute taken so far
Exits ==
  (IF sync.exit # "none"
     THEN {[path |-> "sync", exit |-> sync.exit, refs |-> sync.refs]}
     ELSE {})
  \cup (IF w[1].exit # "none"
          THEN {[path |-> "async", exit |-> w[1].exit, refs |-> w[1].refs]}
          ELSE {})

\* C23: in convertRaw and in the worker's Execute the rendered CGImage, once
\* created, is released exactly once before the function returns, on the
\* success path and on every error path after its creation (RGB extraction
\* failure, unsupported-format branch, destination creation failure,
\* finalize failure); it is never released when it was not created.
C23_ImageReleasedOnce ==
  \A e \in Exits :
    e.refs.cgImage.released = IF e.refs.cgImage.made THEN 1 ELSE 0

\* C29: the sourceMetadataRef dictionary copied from the source file is
\* released exactly once on every exit path of convertRaw and of the worker's
\* Execute, the error paths included (filter creation, missing output image,
\* empty extent, render, unsupported format, destination creation, finalize).
C29_SourceMetadataReleasedOnce ==
  \A e \in Exits :
    e.refs.sourceMetadataRef.released
      = IF e.refs.sourceMetadataRef.made THEN 1 ELSE 0

\* ------------------------------------------------- order of the checks
\* the argument checks in the order the entry points name them, each with
\* the message it reports; a falsy options value counts as no options
ArgumentChecks(a) ==
  << [fails |-> ~IsBuffer(a.input) /\ TypeOf(a.input) # "string",
      message |-> "Input must be a Buffer or file path string"],
     [fails |-> IsBuffer(a.input) /\ Len(a.input.v) = 0,
      message |-> "Input buffer is empty"],
     [fails |-> TypeOf(a.input) = "string" /\ Trim(a.input.v) = <<>>,
      message |-> "File path cannot be empty"],
     [fails |-> TypeOf(a.format) # "string" \/ Trim(a.format.v) = <<>>,
      message |-> "Output format must be a non-empty string"],
     [fails |-> TypeOf(a.format) = "string"
                  /\ Trim(ToLowerCase(a.format.v)) \notin supportedFormats,
      message |-> "Unsupported output format"],
     [fails |-> IsBuffer(a.input)
                  /\ ~Truthy(GetProp(a.options, "inputFormat")),
      message |-> "inputFormat is required when input is a Buffer"],
     [fails |-> Truthy(a.options) /\ TypeOf(a.options) # "object",
      message |-> "Options must be an object"] >>

FailingChecks(a) ==
  {i \in DOMAIN ArgumentChecks(a) : ArgumentChecks(a)[i].fails}

FirstFailingMessage(a) ==
  LET i == CHOOSE k \in FailingChecks(a) :
             \A j \in FailingChecks(a) : k <= j
  IN ArgumentChecks(a)[i].message

\* C27: convertRaw and convertRawAsync check their arguments in one fixed
\* order (input type, empty buffer, blank path, output-format string,
\* supported format, inputFormat for a Buffer input, options object) and
\* report only the first failing check; when no check fails the call goes on
\* to the addon.  So an empty Buffer without inputFormat fails with
\* 'Input buffer is empty', and a Buffer with a non-object options value with
\* 'inputFormat is required when input is a Buffer'.
C27_FirstFailingCheck ==
  /\ (sync.calls >= 1 /\ sync.pc = "idle") =>
       IF FailingChecks(probe) = {}
         THEN convertRaw(probe.input, probe.format, probe.options).tag
                = "addon"
         ELSE /\ sync.result.tag = "throw"
              /\ sync.result.value.message = FirstFailingMessage(probe)
  /\ state[1] # "Idle" =>
       IF FailingChecks(probe) = {}
         THEN convertRawAsync(probe.input, probe.format, probe.options).tag
                = "addon"
         ELSE /\ promise[1].status = "rejected"
              /\ promise[1].value.message = FirstFailingMessage(probe)

\* a Buffer went in with a number for options, two checks fail, and both
\* entry points reported the earlier one
C27_Witness ==
  /\ IsBuffer(probe.input) /\ Len(probe.input.v) > 0
  /\ probe.options = Num(1)
  /\ Cardinality(FailingChecks(probe)) >= 2
  /\ sync.calls >= 1 /\ sync.pc = "idle"
  /\ sync.result.value.message
       = "inputFormat is required when input is a Buffer"
  /\ promise[1].status = "rejected"
  /\ promise[1].value.message
       = "inputFormat is required when input is a Buffer"

\* C28: for every source metadata dictionary and rendered image the metadata
\* object the promise resolves with (stored in MetadataStorage, rebuilt by
\* HandleOKCallback) has the same fields and values as the one convertRaw
\* returns for the same call, a source field that is an empty string or a
\* number at or below the storage's sentinel included.
C28_AsyncMetadataEqualsSync ==
  (SyncReturned /\ AsyncResolved) =>
    /\ "metadata" \in DOMAIN SyncOutput <=> "metadata" \in DOMAIN AsyncOutput
    /\ "metadata" \in DOMAIN SyncOutput =>
         AsyncOutput.metadata = SyncOutput.metadata

\* ---------------------------------------------------- failing stages
\* the stages in the order the pipeline runs them, each with its message;
\* the RGB extraction and the destination creation are the seventh stage of
\* the raw and of the container branch
Stages ==
  << [exit |-> "read", message |-> "Failed to read file from path"],
     [exit |-> "write", message |-> "Failed to write temp file"],
     [exit |-> "filter",
      message |-> "Failed to create CIRAWFilter from image data"],
     [exit |-> "noimage",
      message |-> "Failed to get output image from RAW filter"],
     [exit |-> "extent", message |-> "Output image has empty extent"],
     [exit |-> "render", message |-> "Failed to create CGImage from CIImage"],
     [exit |-> "rgbfail",
      message |-> "Failed to extract RGB data from image"],
     [exit |-> "dest", message |-> "Failed to create image destination"],
     [exit |-> "finalize",
      message |-> "Failed to finalize image destination"] >>

StageOf(exit) == CHOOSE i \in DOMAIN Stages : Stages[i].exit = exit
FailedStages == {Stages[i].exit : i \in DOMAIN Stages}

\* the first convertRaw call and the worker's Execute, once they ended in a
\* failing stage: the error reported and what the later stages would leave
StageFailures ==
  (IF sync.pc = "idle" /\ sync.calls = 1 /\ sync.exit \in FailedStages
     THEN {[path |-> "sync", exit |-> sync.exit,
            error |-> sync.result.value,
            reported |-> sync.result.tag = "throw",
            wrote |-> staged[0] # <<>>,
            image |-> sync.refs.cgImage.made,
            metadata |-> sync.extracted,
            added |-> sync.properties # Nil,
            output |-> sync.result.tag = "return"]}
     ELSE {})
  \cup (IF w[1].pc \in {"returned", "destroyed"} /\ w[1].exit \in FailedStages
          THEN {[path |-> "async", exit |-> w[1].exit,
                 error |-> w[1].errmsg,
                 reported |-> w[1].errmsg # NoError,
                 wrote |-> staged[1] # <<>>,
                 image |-> w[1].refs.cgImage.made,
                 metadata |-> w[1].metadataStorage_ # MetadataStorage0,
                 added |-> w[1].properties # Nil,
                 output |-> w[1].outputData_ # "null"]}
          ELSE {})

\* C24: the pipeline stops at its first failing stage, runs no later stage
\* and reports that stage's own message (file read, temp write, filter
\* creation, missing output image, empty extent, image render, RGB
\* extraction, destination creation, finalize); an empty extent is reported
\* as 'Output image has empty extent', not as an I/O or encode error; the
\* same failing stage gives the same message from convertRaw and from
\* convertRawAsync, whose promise rejects with it.
C24_FirstFailingStage ==
  /\ \A e \in StageFailures :
       /\ e.reported /\ e.error = Err("Error", Stages[StageOf(e.exit)].message)
       /\ ~e.output
       /\ e.wrote <=> StageOf(e.exit) > StageOf("write")
       /\ e.image <=> StageOf(e.exit) > StageOf("render")
       /\ e.metadata => StageOf(e.exit) > StageOf("render")
       /\ e.added => e.exit = "finalize"
  /\ \A e, f \in StageFailures : e.exit = f.exit => e.error = f.error
  /\ \A e \in StageFailures :
       (e.path = "async" /\ promise[1].status \notin {"none", "pending"}) =>
         promise[1] = [status |-> "rejected", value |-> e.error]

\* bytes handed in as a Buffer were staged, the engine gave an image with an
\* empty extent, and both entry points reported exactly that
C24_Witness ==
  /\ IsBuffer(probe.input)
  /\ sync.pc = "idle" /\ sync.calls = 1 /\ sync.exit = "extent"
  /\ sync.result = [tag |-> "throw",
                    value |-> Err("Error", "Output image has empty extent")]
  /\ w[1].exit = "extent"
  /\ promise[1] = [status |-> "rejected",
                   value |-> Err("Error", "Output image has empty extent")]
  /\ staged[0] # <<>> /\ staged[1] # <<>>

\* ------------------------------------------------ requests side by side
\* the bytes and the format a request was submitted with
OwnBytes(r) ==
  IF IsBuffer(submitted[r].input) THEN submitted[r].input.v
  ELSE FileContents(submitted[r].input.v)
OwnFormat(r) == Trim(ToLowerCase(submitted[r].format.v))

\* the request settled with what its own arguments and its own worker give
SettledFromOwn(r) ==
  /\ state[r] = "Rejected" =>
       promise[r] =
         [status |-> "rejected",
          value |-> convertRawAsync(submitted[r].input, submitted[r].format,
                                    submitted[r].options).error]
  /\ state[r] = "Succeeded" =>
       /\ promise[r].status = "resolved"
       /\ promise[r].value.buffer
            \in {Output(OwnBytes(r), OwnFormat(r), cgImage, path) :
                   path \in RgbPaths(cgImage)}
  /\ state[r] = "Failed" =>
       /\ w[r].exit \in FailedStages
       /\ w[r].exit = "read" => ~IsBuffer(submitted[r].input)
       /\ promise[r] =
            [status |-> "rejected",
             value |-> Err("Error", Stages[StageOf(w[r].exit)].message)]

\* the names of the staging files of different requests differ
StagingFilesDistinct ==
  \A r, q \in Req : \A i \in DOMAIN staged[r], j \in DOMAIN staged[q] :
    r # q => staged[r][i].uuid # staged[q][j].uuid

\* a step that changes what belongs to one request (its worker with the
\* metadata storage, its input copy and output buffer, its promise, its
\* staging files) leaves what belongs to every other request as it was
OwnStateOnly ==
  \A r, q \in Req :
    (r # q /\ << w[r], mem[r], promise[r], staged[r] >>
                # << w'[r], mem'[r], promise'[r], staged'[r] >>)
      => << w[q], mem[q], promise[q], staged[q] >>
           = << w'[q], mem'[q], promise'[q], staged'[q] >>

\* C25: with several asynchronous conversions in flight in any interleaving
\* each request's promise settles with the result or the error computed from
\* its own input, format and options; no worker reads or writes another
\* worker's input copy, output buffer or metadata storage; no two requests
\* use the same staging file.  (That a failed request leaves the others able
\* to succeed is the reachable state C25_Witness.)
C25_RequestsIndependent ==
  /\ [](\A r \in Req : SettledFromOwn(r))
  /\ []StagingFilesDistinct
  /\ [][OwnStateOnly]_vars

\* two workers had their staging files at the same time; then one request
\* failed and the other succeeded with the encoding of its own bytes
C25_Witness ==
  \E r, q \in Req :
    /\ r # q
    /\ state[r] = "Failed" /\ state[q] = "Succeeded"
    /\ w[r].exit \notin {"read", "write"} /\ w[q].exit \in {"ok", "rgb"}
    /\ submitted[r] # submitted[q]
    /\ promise[q].value.buffer.src = OwnBytes(q)

\* ------------------------------------------------- the caller's thread
\* C26: convertRaw runs the whole pipeline inside the call, so no other
\* event of the caller's thread (a timer callback, a completion callback, a
\* new request) runs between its start and its return; between the call of
\* convertRawAsync and the settlement of its promise timer callbacks run;
\* the worker's pipeline steps change nothing on the caller's thread, and
\* only the completion callback, which settles the promise, needs it.
C26_SyncBlocksAsyncDoesNot ==
  /\ [][sync.pc = "staged" =>
          /\ ticks' = ticks /\ promise' = promise
          /\ submitted' = submitted /\ calls' = calls]_vars
  /\ [][(w[1].pc \in {"queued", "load", "staged"} /\ w'[1] # w[1]) =>
          /\ ticks' = ticks /\ promise' = promise /\ sync' = sync]_vars
  /\ [][(promise[1].status = "pending" /\ promise'[1] # promise[1]) =>
          /\ MainThreadFree
          /\ w[1].pc = "returned" /\ w'[1].pc = "destroyed"]_vars
  /\ [](\A i \in DOMAIN ticks : ticks[i].sync = "idle")

\* a timer callback ran while the promise was pending and the worker was in
\* the middle of the pipeline, and the worker took a step while convertRaw
\* was running
C26_Witness ==
  /\ \E i \in DOMAIN ticks :
       ticks[i].promise = "pending" /\ ticks[i].worker = "staged"
  /\ sync.pc = "staged" /\ sync.calls = 0
  /\ w[1].pc = "returned"
  /\ promise[1].status = "pending"

\* ------------------------------------------------- batch conversion
\* C30: batchConvertRawsToJpeg in async mode eventually starts and finishes
\* every RAW file, for any number of files and any maxConcurrent >= 1, the
\* native completions running only when the microtask queue is empty: its
\* slot-waiting loop always reaches a free slot and never waits forever.
C30_BatchFinishes ==
  (batch.pc = "loop") ~>
    (batch.pc = "done" /\ batch.completedCount = batch.files)

====
